---------------------------- MODULE Spec2Model ----------------------------
(***************************************************************************)
(* State-machine model of RobustColMaker::Builder (the robust column-wise  *)
(* tree grower of src/src/tree/updater_robust_colmaker.cc).                *)
(*                                                                         *)
(* Number representation.                                                  *)
(*  - Feature values, eps and thresholds are integers in units of 1/4:     *)
(*    the value 5.5 is 22.  Data values are multiples of 4 and eps is a    *)
(*    multiple of 2, so v - eps and every midpoint (a+b)/2 of two data     *)
(*    values is an even integer and the float operations of the code are   *)
(*    exact.  kRtEps ("tiny") is the odd unit 1: smaller than any distance *)
(*    between two distinct numbers the code can compare it with.           *)
(*  - Gradient sums are integers.  A score G^2/(H+lambda) is carried       *)
(*    multiplied by GainScale, a common multiple of every H+lambda that    *)
(*    can occur, so every loss_chg is an exact integer.                    *)
(*  - Node ids are 0,1,2,...; the position map holds n (eligible at n) or  *)
(*    the bit complement ~n = -n-1 (excluded at n).                        *)
(***************************************************************************)
EXTENDS Integers, Sequences, FiniteSets, TLC

\* ------------------------------------------------------------------ bounds
\* number of training instances of the generated data sets
NumInst == 3
\* number of feature columns of the generated data sets
NumFeat == 2
\* largest max_depth parameter tried
MaxDepthBound == 2
\* largest number of worker threads tried (nthread_)
MaxThreads == 2
\* largest number of trees handed to one call of RobustColMaker::Update
MaxTrees == 3

\* feature values of the generated data sets (units of 1/4)
ValSet == {-4, 0, 4}
\* feature values of the data sets with one more instance
WideValSet == ValSet \cup {8}
\* "no entry in this column": a mark above every value of the value sets
Missing == 1 + (CHOOSE x \in WideValSet : \A y \in WideValSet : y <= x)
\* gradients and hessians of the generated data sets
GradSet == {-1, 1, 2}
HessSet == {1}
\* adversarial budgets tried (robust_eps, units of 1/4)
EpsSet == {0, 2, 4}
\* min_child_weight values tried
McwSet == {1, 2}

\* ------------------------------------------------------------ small helpers
Max(a, b) == IF a >= b THEN a ELSE b

Min(a, b) == IF a <= b THEN a ELSE b

Abs(x) == IF x < 0 THEN -x ELSE x

RECURSIVE Gcd(_, _)
Gcd(a, b) == IF b = 0 THEN a ELSE Gcd(b, a % b)

RECURSIVE LcmUpTo(_)
LcmUpTo(n) == IF n <= 1 THEN 1 ELSE LET l == LcmUpTo(n - 1) IN (l * n) \div Gcd(l, n)

\* ascending sequence of the elements of a finite set of integers
RECURSIVE SortedSeq(_)
SortedSeq(S) ==
  IF S = {} THEN << >>
  ELSE LET m == CHOOSE x \in S : \A y \in S : x <= y
       IN <<m>> \o SortedSeq(S \ {m})

\* ------------------------------------------------------- GradStats (param.h)
ZeroStats == [g |-> 0, h |-> 0]

\* GradStats::Add(gpair, info, ridx) / Add(GradStats)
StatsAdd(a, b) == [g |-> a.g + b.g, h |-> a.h + b.h]

\* GradStats::Subtract / SetSubstract(a, b)
StatsSub(a, b) == [g |-> a.g - b.g, h |-> a.h - b.h]

\* GradStats::Empty(): sum_hess == 0
StatsEmpty(s) == s.h = 0

\* ------------------------------------------------- Split Evaluator (injected)
\* regularisation of the Newton gain (reg_lambda)
RegLambda == 1

\* largest sum_hess a set of instances can have in any data set of the model
HessCap == Max(6, NumInst * 2)

\* common multiple of all denominators H + lambda
GainScale == LcmUpTo(HessCap + RegLambda)

\* ComputeWeight: Newton-optimal leaf weight -G/(H+lambda), times GainScale
ComputeWeight(s) == (-(s.g) * GainScale) \div (s.h + RegLambda)

\* ComputeScore: score of a node, G^2/(H+lambda), times GainScale
ComputeScore(s) == (s.g * s.g * GainScale) \div (s.h + RegLambda)

\* ComputeSplitScore(nid, fid, left, right)
ComputeSplitScore(left, right) == ComputeScore(left) + ComputeScore(right)

\* --------------------------------------------------------- SplitEntry (param.h)
\* "tiny" of the commit test, in loss units: every positive loss_chg of the
\* model is at least 1 (that is 1/GainScale > 1e-5), so loss_chg > kRtEps
\* is loss_chg > 0.
kRtEpsLoss == 0

\* "tiny" of the closing-pass threshold, in value units (see the header)
kRtEpsVal == 1

\* a default-constructed SplitEntry
NewSplitEntry == [loss_chg |-> 0, sindex |-> 0, split_value |-> 0, default_left |-> FALSE]

\* SplitEntry::NeedReplace: strictly higher loss_chg, ties to the lower
\* feature id and then to the lower threshold
NeedReplace(b, loss_chg, fid, thr) ==
  \/ loss_chg > b.loss_chg
  \/ /\ loss_chg = b.loss_chg
     /\ \/ fid < b.sindex
        \/ fid = b.sindex /\ thr < b.split_value

\* SplitEntry::Update(loss_chg, split_index, split_value, default_left)
BestUpdate(b, loss_chg, fid, thr, dleft) ==
  IF NeedReplace(b, loss_chg, fid, thr)
  THEN [loss_chg |-> loss_chg, sindex |-> fid, split_value |-> thr, default_left |-> dleft]
  ELSE b

\* SplitEntry::Update(const SplitEntry&)
BestMerge(b, o) == BestUpdate(b, o.loss_chg, o.sindex, o.split_value, o.default_left)

\* SplitEntry::update_split_value: the threshold alone
UpdateSplitValue(b, thr) == [b EXCEPT !.split_value = thr]

\* ------------------------------------------------------------------- state
VARIABLES
  gpair,      \* gradient pair of every instance: sequence of [g, h]
  cols,       \* column matrix: fid -> stored sequence of entries [index, fvalue]
  param,      \* TrainParam: robust_eps, min_child_weight, max_depth, learning_rate
  nthread,    \* nthread_
  tree,       \* RegTree: sequence of nodes, node id n at index n+1
  position,   \* position_: instance -> encoded node id
  snode,      \* snode_: per node [stats, root_gain, weight, best]
  stemp,      \* stemp_: tid -> node id -> ThreadEntry
  qexpand,    \* qexpand_: the frontier, a sequence of node ids
  newnodes,   \* newnodes of Builder::Update
  feat_index, \* feat_index_: the features sampled for the tree
  feat_set,   \* feat_set of FindSplit: the features sampled for the depth
  todo,       \* features of feat_set whose loop iteration has not run yet
  depth,      \* loop counter of Builder::Update
  pc,         \* position in RobustColMaker::Update and Builder::Update
  call,       \* record of the last UpdateSolution loop iteration (history)
  trees,      \* the trees handed to RobustColMaker::Update
  cur,        \* index in trees of the tree the loop over trees is at
  lr,         \* the local lr of RobustColMaker::Update
  splits,     \* the AddSplit calls the Builder's evaluator has received (history)
  par,        \* record of the last within-column-parallel UpdateSolution (history)
  given       \* param_ as it was when RobustColMaker::Update was called (history)

\* the state of RobustColMaker::Update around the builders
outer == <<trees, cur, lr, given>>

vars == <<gpair, cols, param, nthread, tree, position, snode, stemp, qexpand,
          newnodes, feat_index, feat_set, todo, depth, pc, call, splits, par, outer>>

Instances == 1..Len(gpair)

\* bitwise complement ~n of a node id
Complement(n) == -n - 1

\* Builder::DecodePosition
DecodePosition(pos, ridx) == IF pos[ridx] < 0 THEN Complement(pos[ridx]) ELSE pos[ridx]

\* SetEncodePosition that forgets the encoding of the row
SetEncodePositionPlain(pos, ridx, nid) == [pos EXCEPT ![ridx] = nid]

\* Builder::SetEncodePosition
SetEncodePosition(pos, ridx, nid) ==
  [pos EXCEPT ![ridx] = IF pos[ridx] < 0 THEN Complement(nid) ELSE nid]

\* ------------------------------------------------------------- ThreadEntry
NewThreadEntry ==
  [stats |-> ZeroStats, stats_left |-> ZeroStats, stats_c_left |-> ZeroStats,
   c_left_counter |-> 0, stats_unc_right |-> ZeroStats, stats_unc |-> ZeroStats,
   data_unc_right |-> << >>, data_unc |-> << >>, last_fvalue |-> 0,
   stats_extra |-> ZeroStats, first_fvalue |-> 0,
   best |-> NewSplitEntry]

\* the "clear all the temp statistics" loop of EnumerateSplit: best and
\* last_fvalue are kept
ClearEntry(e) ==
  [e EXCEPT !.stats = ZeroStats, !.stats_left = ZeroStats,
            !.data_unc_right = << >>, !.data_unc = << >>,
            !.stats_unc_right = ZeroStats, !.stats_c_left = ZeroStats,
            !.c_left_counter = 0, !.stats_unc = ZeroStats]

ClearTemp(temp, q) ==
  [n \in DOMAIN temp |->
     IF \E i \in 1..Len(q) : q[i] = n THEN ClearEntry(temp[n]) ELSE temp[n]]

\* ----------------------------------------------------------- EnumerateSplit
\* ScanOrder without the descent test: from begin in steps of d_step
ScanOrderStored(col, d) ==
  LET len   == Len(col)
      begin == IF d = 1 THEN 1 ELSE len
  IN [k \in 1..len |-> col[begin + (k - 1) * d]]

\* The entries of a column in the order the loops of EnumerateSplit visit
\* them: from `first`, in steps of (descent ? -d_step : d_step).
ScanOrder(col, d) ==
  LET len     == Len(col)
      begin   == IF d = 1 THEN 1 ELSE len
      end     == IF d = 1 THEN len + 1 ELSE 0
      descent == col[begin].fvalue > col[end - d].fvalue
      first   == IF descent THEN end - d ELSE begin
      step    == IF descent THEN -d ELSE d
  IN [k \in 1..len |-> col[first + (k - 1) * step]]

\* Absorb that leaves stats_unc as it is
AbsorbNoUnc(e, it) ==
  [e EXCEPT !.stats = StatsAdd(@, gpair[it.index]),
            !.last_fvalue = it.fvalue,
            !.data_unc_right = Append(@, it),
            !.data_unc = Append(@, it),
            !.stats_unc_right = StatsAdd(@, gpair[it.index])]

\* the first-hit branch, and the "update the statistics" tail of the else
\* branch: the entry joins stats and both queues
Absorb(e, it) ==
  [e EXCEPT !.stats = StatsAdd(@, gpair[it.index]),
            !.last_fvalue = it.fvalue,
            !.data_unc_right = Append(@, it),
            !.data_unc = Append(@, it),
            !.stats_unc_right = StatsAdd(@, gpair[it.index]),
            !.stats_unc = StatsAdd(@, gpair[it.index])]

\* while (!data_unc_right.empty()) { front < eta: move to stats_left }
RECURSIVE DrainUncRight(_, _)
DrainUncRight(e, eta) ==
  IF e.data_unc_right # << >> /\ Head(e.data_unc_right).fvalue < eta
  THEN LET r == Head(e.data_unc_right).index
       IN DrainUncRight(
            [e EXCEPT !.stats_left = StatsAdd(@, gpair[r]),
                      !.stats_unc_right = StatsSub(@, gpair[r]),
                      !.data_unc_right = Tail(@)], eta)
  ELSE e

\* DrainUnc whose test is <= instead of <
RECURSIVE DrainUncInclusive(_, _)
DrainUncInclusive(e, lim) ==
  IF e.data_unc # << >> /\ Head(e.data_unc).fvalue <= lim
  THEN LET r == Head(e.data_unc).index
       IN DrainUncInclusive(
            [e EXCEPT !.data_unc = Tail(@),
                      !.stats_c_left = StatsAdd(@, gpair[r]),
                      !.c_left_counter = @ + 1,
                      !.stats_unc = StatsSub(@, gpair[r])], lim)
  ELSE e

\* DrainUnc whose limit is eta + 3 * eps instead of eta - eps
RECURSIVE DrainUncWide(_, _)
DrainUncWide(e, lim) ==
  IF e.data_unc # << >> /\ Head(e.data_unc).fvalue < lim + 4 * param.robust_eps
  THEN LET r == Head(e.data_unc).index
       IN DrainUncWide(
            [e EXCEPT !.data_unc = Tail(@),
                      !.stats_c_left = StatsAdd(@, gpair[r]),
                      !.c_left_counter = @ + 1,
                      !.stats_unc = StatsSub(@, gpair[r])], lim)
  ELSE e

\* while (!data_unc.empty()) { front < eta - eps: move to stats_c_left }
RECURSIVE DrainUnc(_, _)
DrainUnc(e, lim) ==
  IF e.data_unc # << >> /\ Head(e.data_unc).fvalue < lim
  THEN LET r == Head(e.data_unc).index
       IN DrainUnc(
            [e EXCEPT !.data_unc = Tail(@),
                      !.stats_c_left = StatsAdd(@, gpair[r]),
                      !.c_left_counter = @ + 1,
                      !.stats_unc = StatsSub(@, gpair[r])], lim)
  ELSE e

\* ComputeSplitScore(...) - root_gain with the argument order of the code:
\* `scanned` is the side built from the scan, `rest` its complement
SplitLoss(nid, scanned, rest, d) ==
  (IF d = -1 THEN ComputeSplitScore(rest, scanned)
             ELSE ComputeSplitScore(scanned, rest)) - snode[nid].root_gain

\* the left statistics of the four partitions of the main sweep
NominalLeft(e) == e.stats_left

AllLeft(e) == StatsAdd(e.stats_c_left, e.stats_unc)

AllRight(e) == e.stats_c_left

SwapLeft(e) == StatsAdd(e.stats_c_left, e.stats_unc_right)

PartLoss(nid, left, d) == SplitLoss(nid, left, StatsSub(snode[nid].stats, left), d)

\* RobustLossChg that forgets the swap partition
RobustLossChgNoSwap(e, nid, d) ==
  LET nominal == PartLoss(nid, NominalLeft(e), d)
  IN IF Len(e.data_unc) > 0
     THEN Min(nominal, Min(PartLoss(nid, AllLeft(e), d), PartLoss(nid, AllRight(e), d)))
     ELSE nominal

\* RobustLossChg with the comparisons of the minimization reversed
RobustLossChgMax(e, nid, d) ==
  LET nominal == PartLoss(nid, NominalLeft(e), d)
  IN IF Len(e.data_unc) > 0
     THEN Max(Max(nominal, PartLoss(nid, AllLeft(e), d)),
              Max(PartLoss(nid, AllRight(e), d), PartLoss(nid, SwapLeft(e), d)))
     ELSE nominal

\* the "one-side/swap minimization": loss_chg of the nominal partition,
\* lowered to the smallest of the three others when data_unc is not empty
RobustLossChg(e, nid, d) ==
  LET nominal == PartLoss(nid, NominalLeft(e), d)
  IN IF Len(e.data_unc) > 0
     THEN Min(Min(nominal, PartLoss(nid, AllLeft(e), d)),
              Min(PartLoss(nid, AllRight(e), d), PartLoss(nid, SwapLeft(e), d)))
     ELSE nominal

\* the two tests that guard a candidate of the main sweep
MainGate(e, nid, fvalue) ==
  /\ fvalue # e.last_fvalue
  /\ e.stats.h >= param.min_child_weight
  /\ StatsSub(snode[nid].stats, e.stats_left).h >= param.min_child_weight

\* what the sweep remembers of a candidate handed to best.Update
Offer(kind, e, nid, fid, d, fvalue, thr, loss, dleft) ==
  [kind |-> kind, nid |-> nid, fid |-> fid, d |-> d, fvalue |-> fvalue,
   thr |-> thr, loss_chg |-> loss, default_left |-> dleft, stats |-> e.stats,
   stats_left |-> e.stats_left, stats_c_left |-> e.stats_c_left,
   stats_unc |-> e.stats_unc, stats_unc_right |-> e.stats_unc_right,
   unc |-> [i \in 1..Len(e.data_unc) |-> e.data_unc[i].index],
   unc_right |-> [i \in 1..Len(e.data_unc_right) |-> e.data_unc_right[i].index]]

\* Eta with the sign of the descending scan
EtaAbove(fvalue, eps) == fvalue + eps

\* bst_float eta = fvalue - eps
Eta(fvalue, eps) == fvalue - eps

\* the default_left argument of best.Update: d_step == -1
DefaultLeftOf(d) == d = -1

\* one iteration of the main loop for an entry of an eligible instance at nid
SweepEntry(acc, it, nid, d, fid, eps) ==
  LET e0 == acc.temp[nid]
  IN IF StatsEmpty(e0.stats)
     THEN [acc EXCEPT !.temp[nid] = Absorb(e0, it)]
     ELSE
       LET eta  == Eta(it.fvalue, eps)
           e2   == DrainUnc(DrainUncRight(e0, eta), eta - eps)
           gate == MainGate(e2, nid, it.fvalue)
           loss == RobustLossChg(e2, nid, d)
           e3   == IF gate
                   THEN [e2 EXCEPT !.best = BestUpdate(@, loss, fid, eta, DefaultLeftOf(d))]
                   ELSE e2
       IN [temp   |-> [acc.temp EXCEPT ![nid] = Absorb(e3, it)],
           offers |-> IF gate
                      THEN Append(acc.offers,
                                  Offer("main", e2, nid, fid, d, it.fvalue, eta, loss,
                                        DefaultLeftOf(d)))
                      ELSE acc.offers]

\* MainSweep that takes the entries of the excluded instances too
RECURSIVE MainSweepNoSkip(_, _, _, _, _, _)
MainSweepNoSkip(acc, ord, k, d, fid, eps) ==
  IF k > Len(ord) THEN acc
  ELSE MainSweepNoSkip(SweepEntry(acc, ord[k], DecodePosition(position, ord[k].index),
                                  d, fid, eps),
                       ord, k + 1, d, fid, eps)

\* the main loop over the column in ascending order
RECURSIVE MainSweep(_, _, _, _, _, _)
MainSweep(acc, ord, k, d, fid, eps) ==
  IF k > Len(ord) THEN acc
  ELSE LET nid == position[ord[k].index]
       IN MainSweep(IF nid < 0 THEN acc ELSE SweepEntry(acc, ord[k], nid, d, fid, eps),
                    ord, k + 1, d, fid, eps)

\* threshold of the closing candidate
ClosingThreshold(last, d, eps) ==
  LET gap == Abs(last) + kRtEpsVal + eps
  IN last + (IF d = 1 THEN gap ELSE -gap)

\* the loop over qexpand after the main loop: all scanned against the rest
RECURSIVE ClosingPass(_, _, _, _, _, _)
ClosingPass(acc, q, i, d, fid, eps) ==
  IF i > Len(q) THEN acc
  ELSE
    LET nid  == q[i]
        e    == acc.temp[nid]
        c    == StatsSub(snode[nid].stats, e.stats)
        gate == e.stats.h >= param.min_child_weight /\ c.h >= param.min_child_weight
        loss == SplitLoss(nid, e.stats, c, d)
        thr  == ClosingThreshold(e.last_fvalue, d, eps)
        next ==
          IF gate
          THEN [temp   |-> [acc.temp EXCEPT ![nid].best =
                                      BestUpdate(@, loss, fid, thr, DefaultLeftOf(d))],
                offers |-> Append(acc.offers,
                                  Offer("closing", e, nid, fid, d, e.last_fvalue, thr, loss,
                                        DefaultLeftOf(d)))]
          ELSE acc
    IN ClosingPass(next, q, i + 1, d, fid, eps)

\* MidStep that remembers the last value but never moves a threshold
MidStepNoMove(st, it, nid, fid) ==
  IF st.temp[nid].best.sindex # fid \/ nid \in st.updated
  THEN st
  ELSE [st EXCEPT !.last = [n \in DOMAIN st.last \cup {nid} |->
                              IF n = nid THEN it.fvalue ELSE st.last[n]]]

\* MidStep that moves the threshold just past the entry that closes the gap
MidStepPastEntry(st, it, nid, fid) ==
  LET e == st.temp[nid]
  IN IF e.best.sindex # fid \/ nid \in st.updated
     THEN st
     ELSE
       LET hit == /\ nid \in DOMAIN st.last
                  /\ st.last[nid] < e.best.split_value
                  /\ e.best.split_value <= it.fvalue
       IN [temp    |-> IF hit
                       THEN [st.temp EXCEPT ![nid].best = UpdateSplitValue(@, it.fvalue + 1)]
                       ELSE st.temp,
           updated |-> IF hit THEN st.updated \cup {nid} ELSE st.updated,
           last    |-> [n \in DOMAIN st.last \cup {nid} |->
                          IF n = nid THEN it.fvalue ELSE st.last[n]]]

\* "move thresholds to mid": st = [temp, last (last_fvalue_map), updated]
MidStep(st, it, nid, fid) ==
  LET e == st.temp[nid]
  IN IF e.best.sindex # fid \/ nid \in st.updated
     THEN st
     ELSE
       LET hit == /\ nid \in DOMAIN st.last
                  /\ st.last[nid] < e.best.split_value
                  /\ e.best.split_value <= it.fvalue
           mid == (it.fvalue + (IF nid \in DOMAIN st.last THEN st.last[nid] ELSE 0)) \div 2
       IN [temp    |-> IF hit
                       THEN [st.temp EXCEPT ![nid].best = UpdateSplitValue(@, mid)]
                       ELSE st.temp,
           updated |-> IF hit THEN st.updated \cup {nid} ELSE st.updated,
           last    |-> [n \in DOMAIN st.last \cup {nid} |->
                          IF n = nid THEN it.fvalue ELSE st.last[n]]]

RECURSIVE MidPass(_, _, _, _)
MidPass(st, ord, k, fid) ==
  IF k > Len(ord) THEN st
  ELSE LET nid == position[ord[k].index]
       IN MidPass(IF nid < 0 THEN st ELSE MidStep(st, ord[k], nid, fid), ord, k + 1, fid)

\* Builder::EnumerateSplit on the thread's entries `temp`; acc carries the
\* offers of earlier calls of the same loop iteration
EnumerateSplit(acc, col, d, fid, eps) ==
  LET ord == ScanOrder(col, d)
      a0  == [temp |-> ClearTemp(acc.temp, qexpand), offers |-> acc.offers]
      a1  == MainSweep(a0, ord, 1, d, fid, eps)
      a2  == ClosingPass(a1, qexpand, 1, d, fid, eps)
      m   == MidPass([temp |-> a2.temp, updated |-> {}, last |-> << >>], ord, 1, fid)
  IN [temp |-> m.temp, offers |-> a2.offers]

\* ------------------------------------- the non-robust enumeration (eps-free)
\* Builder::UpdateEnumeration
UpdateEnumeration(temp, nid, it, d, fid) ==
  LET e == temp[nid]
  IN IF StatsEmpty(e.stats)
     THEN [temp EXCEPT ![nid].stats = StatsAdd(@, gpair[it.index]),
                       ![nid].last_fvalue = it.fvalue]
     ELSE
       LET c    == StatsSub(snode[nid].stats, e.stats)
           gate == /\ it.fvalue # e.last_fvalue
                   /\ e.stats.h >= param.min_child_weight
                   /\ c.h >= param.min_child_weight
           b    == IF gate
                   THEN BestUpdate(e.best, SplitLoss(nid, e.stats, c, d), fid,
                                   (it.fvalue + e.last_fvalue) \div 2, d = -1)
                   ELSE e.best
       IN [temp EXCEPT ![nid].best = b,
                       ![nid].stats = StatsAdd(@, gpair[it.index]),
                       ![nid].last_fvalue = it.fvalue]

\* the loops of EnumerateSplitCacheOpt over the entries, from begin in
\* steps of d_step
RECURSIVE CacheOptSweep(_, _, _, _, _)
CacheOptSweep(temp, col, j, d, fid) ==
  IF j < 1 \/ j > Len(col) THEN temp
  ELSE LET nid == position[col[j].index]
       IN CacheOptSweep(IF nid < 0 THEN temp
                        ELSE UpdateEnumeration(temp, nid, col[j], d, fid),
                        col, j + d, d, fid)

\* the closing check of EnumerateSplitCacheOpt
RECURSIVE CacheOptClosing(_, _, _, _, _)
CacheOptClosing(temp, q, i, d, fid) ==
  IF i > Len(q) THEN temp
  ELSE
    LET nid  == q[i]
        e    == temp[nid]
        c    == StatsSub(snode[nid].stats, e.stats)
        gate == e.stats.h >= param.min_child_weight /\ c.h >= param.min_child_weight
        gap  == Abs(e.last_fvalue) + kRtEpsVal
        thr  == e.last_fvalue + (IF d = 1 THEN gap ELSE -gap)
    IN CacheOptClosing(
         IF gate
         THEN [temp EXCEPT ![nid].best =
                 BestUpdate(@, SplitLoss(nid, e.stats, c, d), fid, thr, d = -1)]
         ELSE temp,
         q, i + 1, d, fid)

\* Builder::EnumerateSplitCacheOpt
EnumerateSplitCacheOpt(temp, col, d, fid) ==
  LET t0 == [n \in DOMAIN temp |->
               IF \E i \in 1..Len(qexpand) : qexpand[i] = n
               THEN [temp[n] EXCEPT !.stats = ZeroStats] ELSE temp[n]]
      t1 == CacheOptSweep(t0, col, IF d = 1 THEN 1 ELSE Len(col), d, fid)
  IN CacheOptClosing(t1, qexpand, 1, d, fid)

\* ------------------------------------------------------------------ RegTree
\* a node after RegTree::InitModel / AddChilds: a leaf with value 0 whose
\* right-child field is -1
NewNode(parent) ==
  [parent |-> parent, cleft |-> -1, cright |-> -1, sindex |-> 0,
   split_cond |-> 0, default_left |-> FALSE, leaf_value |-> 0]

NumNodes(t) == Cardinality(DOMAIN t)

\* RegTree::Node::IsLeaf
IsLeaf(t, nid) == t[nid].cleft = -1

\* RegTree::Node::SetLeaf(value, right)
SetLeaf(t, nid, value, right) ==
  [t EXCEPT ![nid].leaf_value = value, ![nid].cleft = -1, ![nid].cright = right]

\* RegTree::AddChilds followed by SetSplit and the two SetLeaf(0.0f, 0) of
\* FindSplit: the children are fresh leaves (right-child field 0)
AddSplitNode(t, nid, b) ==
  LET l == NumNodes(t)
      r == NumNodes(t) + 1
  IN [n \in DOMAIN t \cup {l, r} |->
        IF n = nid
        THEN [t[nid] EXCEPT !.cleft = l, !.cright = r, !.sindex = b.sindex,
                            !.split_cond = b.split_value,
                            !.default_left = b.default_left]
        ELSE IF n \in {l, r}
        THEN [NewNode(nid) EXCEPT !.cright = 0]
        ELSE t[n]]

\* depth of a node
RECURSIVE NodeDepth(_, _)
NodeDepth(t, nid) == IF t[nid].parent = -1 THEN 0 ELSE 1 + NodeDepth(t, t[nid].parent)

\* ---------------------------------------------------------------- the data
\* the stored column of a feature: the entries of the instances that have a
\* value, in ascending order of value (ties in row order)
RECURSIVE ColumnOf(_, _)
ColumnOf(vals, S) ==
  IF S = {} THEN << >>
  ELSE LET i == CHOOSE x \in S :
                  \A y \in S : vals[x] < vals[y] \/ (vals[x] = vals[y] /\ x <= y)
       IN <<[index |-> i, fvalue |-> vals[i]]>> \o ColumnOf(vals, S \ {i})

MakeColumn(vals) == ColumnOf(vals, {i \in DOMAIN vals : vals[i] # Missing})

FeatIds == 0..(NumFeat - 1)

\* the column of fid has an entry of instance ridx
HasEntry(fid, ridx) == \E j \in 1..Len(cols[fid]) : cols[fid][j].index = ridx

EntryValue(fid, ridx) ==
  cols[fid][CHOOSE j \in 1..Len(cols[fid]) : cols[fid][j].index = ridx].fvalue

\* DMatrix::GetColDensity(fid) < 1: some row has no entry
IsSparseCol(fid) == Len(cols[fid]) < Len(gpair)

\* "ind" of UpdateSolution: first and last stored value are equal
IsIndicator(fid) ==
  Len(cols[fid]) # 0 /\ cols[fid][1].fvalue = cols[fid][Len(cols[fid])].fvalue

\* TrainParam::NeedForwardSearch / NeedBackwardSearch; default_direction is
\* 0 (learn), 1 (left) or 2 (right)
NeedForwardSearch(fid) ==
  \/ param.default_direction = 2
  \/ param.default_direction = 0 /\ IsSparseCol(fid) /\ ~IsIndicator(fid)

NeedBackwardSearch(fid) == param.default_direction # 2

\* -------------------------------------------------------------- InitNewNode
\* owner thread of row i under schedule(static)
RowThread(i) ==
  LET n     == Len(gpair)
      chunk == (n + nthread - 1) \div nthread
  IN (i - 1) \div chunk

ResizeTemp(temp, t) ==
  [n \in DOMAIN t |-> IF n \in DOMAIN temp THEN temp[n] ELSE NewThreadEntry]

NewNodeEntry == [stats |-> ZeroStats, root_gain |-> 0, weight |-> 0, best |-> NewSplitEntry]

\* sum of the gradient pairs of a set of instances
RECURSIVE SumStats(_)
SumStats(S) ==
  IF S = {} THEN ZeroStats
  ELSE LET i == CHOOSE x \in S : TRUE IN StatsAdd(gpair[i], SumStats(S \ {i}))

\* stemp_ after the resize and the parallel accumulation loop
InitNewNodeTemp(st, t, pos) ==
  [tid \in DOMAIN st |->
     LET temp == ResizeTemp(st[tid], t)
     IN [n \in DOMAIN temp |->
           [temp[n] EXCEPT !.stats =
              StatsAdd(@, SumStats({i \in Instances : pos[i] = n /\ RowThread(i) = tid}))]]]

RECURSIVE SumThreads(_, _, _)
SumThreads(st, nid, tid) ==
  IF tid >= nthread THEN ZeroStats
  ELSE StatsAdd(st[tid][nid].stats, SumThreads(st, nid, tid + 1))

\* snode_ after the resize, the reduction over threads and the weight loop
InitNewNodeSnode(sn, st, t, q) ==
  [n \in DOMAIN t |->
     IF \E i \in 1..Len(q) : q[i] = n
     THEN LET stats == SumThreads(st, n, 0)
              base  == IF n \in DOMAIN sn THEN sn[n] ELSE NewNodeEntry
          IN [base EXCEPT !.stats = stats,
                          !.weight = ComputeWeight(stats),
                          !.root_gain = ComputeScore(stats)]
     ELSE IF n \in DOMAIN sn THEN sn[n] ELSE NewNodeEntry]

\* ------------------------------------------------------- the inputs of a run
\* instance -> value of a feature, rows in nondecreasing order of feature 0
\* (rows are interchangeable, so this loses no case), at least one entry
Feat0Vals ==
  {v \in [1..NumInst -> ValSet \cup {Missing}] :
     /\ \A i \in 1..(NumInst - 1) : v[i] <= v[i + 1]
     /\ v[1] # Missing}

AllMissing == [i \in 1..NumInst |-> Missing]

ValSeq == SortedSeq(ValSet)

\* second-feature patterns: the values in the opposite row order, and a
\* sparse column with entries of the even rows only
Reversed == [i \in 1..NumInst |-> ValSeq[((NumInst - i) % Len(ValSeq)) + 1]]

EvenRows == [i \in 1..NumInst |-> IF i % 2 = 0 THEN ValSeq[1] ELSE Missing]

\* all features after the first carry the same pattern, shifted by nothing
Matrix(v0, v1) == [f \in FeatIds |-> MakeColumn(IF f = 0 THEN v0 ELSE v1)]

UnitHess(grads) == [i \in DOMAIN grads |-> [g |-> grads[i], h |-> 1]]

DefaultParam ==
  [robust_eps |-> 0, min_child_weight |-> 1, max_depth |-> MaxDepthBound,
   learning_rate |-> 1, default_direction |-> 0,
   colsample_bytree |-> 2, colsample_bylevel |-> 2, subsample |-> 2,
   parallel_option |-> 0]

\* one column, every gradient vector, every budget and min_child_weight
FamilySweep ==
  {[gpair |-> UnitHess(g), cols |-> Matrix(v, AllMissing), nthread |-> 1,
    param |-> [DefaultParam EXCEPT !.robust_eps = e, !.min_child_weight = m]] :
     g \in [1..NumInst -> GradSet], v \in Feat0Vals, e \in EpsSet, m \in McwSet}

\* the boundary scenario of the specification: two clusters of three
ScenarioEps == {0, 18, 22}

FamilyScenario ==
  {[gpair |-> UnitHess(<<1, 1, 1, -1, -1, -1>>),
    cols |-> [f \in FeatIds |->
                IF f = 0
                THEN [i \in 1..6 |-> [index |-> i, fvalue |-> IF i <= 3 THEN 4 ELSE 40]]
                ELSE << >>],
    nthread |-> 1,
    param |-> [DefaultParam EXCEPT !.robust_eps = e, !.max_depth = md]] :
     e \in ScenarioEps, md \in 0..MaxDepthBound}

\* two gradient vectors for the families that vary something else
AltGrads ==
  {[i \in 1..NumInst |-> IF i % 2 = 1 THEN 1 ELSE -1],
   [i \in 1..NumInst |-> IF i = 1 THEN 2 ELSE -1]}

\* one instance filtered by a negative hessian, with and without row
\* subsampling (subsample is carried in halves like the colsample fractions)
FamilyFiltered ==
  {[gpair |-> [i \in 1..NumInst |-> [g |-> g[i], h |-> IF i = x THEN -1 ELSE 1]],
    cols |-> Matrix(v, AllMissing), nthread |-> 1,
    param |-> [DefaultParam EXCEPT !.robust_eps = e, !.subsample = ss]] :
     g \in AltGrads, v \in Feat0Vals, e \in EpsSet, x \in 1..NumInst, ss \in {1, 2}}

\* a fixed default direction, and every max_depth
FamilyDirection ==
  {[gpair |-> UnitHess(g), cols |-> Matrix(v, AllMissing), nthread |-> 1,
    param |-> [DefaultParam EXCEPT !.robust_eps = e, !.default_direction = dd,
                                   !.max_depth = md]] :
     g \in AltGrads, v \in Feat0Vals, e \in EpsSet, dd \in {1, 2},
     md \in 0..MaxDepthBound}

\* several columns and several threads, learning_rate 2
FamilyColumns ==
  {[gpair |-> UnitHess(g), cols |-> Matrix(v, w), nthread |-> nt,
    param |-> [DefaultParam EXCEPT !.robust_eps = e, !.learning_rate = 2]] :
     g \in AltGrads, v \in Feat0Vals, w \in {Reversed, EvenRows}, e \in EpsSet,
     nt \in 1..MaxThreads}

\* one more instance than the sweep, two gradient vectors
WideVals ==
  {v \in [1..(NumInst + 1) -> WideValSet \cup {Missing}] :
     /\ \A i \in 1..NumInst : v[i] <= v[i + 1]
     /\ v[1] # Missing}

WideGrads ==
  {[i \in 1..(NumInst + 1) |-> IF 2 * i <= NumInst + 1 THEN -1 ELSE 1],
   [i \in 1..(NumInst + 1) |-> IF i = NumInst + 1 THEN 2 ELSE -1]}

FamilyWide ==
  {[gpair |-> UnitHess(g), cols |-> Matrix(v, [i \in 1..(NumInst + 1) |-> Missing]),
    nthread |-> 1,
    param |-> [DefaultParam EXCEPT !.robust_eps = e, !.min_child_weight = m]] :
     g \in WideGrads, v \in WideVals, e \in EpsSet, m \in McwSet}

\* five instances at -3, -1, 0, 1, 2 and two close budgets
BudgetEps == {6, 8}

FamilyBudget ==
  {[gpair |-> UnitHess(<<-2, -2, 1, 1, -2>>),
    cols |-> [f \in FeatIds |->
                IF f = 0 THEN MakeColumn(<<-12, -4, 0, 4, 8>>) ELSE << >>],
    nthread |-> 1,
    param |-> [DefaultParam EXCEPT !.robust_eps = e]] : e \in BudgetEps}

\* the tree handed to Builder::Update: a single root
EmptyTree == [n \in {0} |-> NewNode(-1)]

\* a tree that is not new: a root with two leaves
GrownTree ==
  [n \in 0..2 |->
     IF n = 0 THEN [NewNode(-1) EXCEPT !.cleft = 1, !.cright = 2]
     ELSE [NewNode(0) EXCEPT !.leaf_value = 1]]

\* a learning rate every number of trees divides
TreesRate == LcmUpTo(MaxTrees)

\* one to MaxTrees new trees in one call, and calls with a grown tree
\* among the trees
FamilyTrees ==
  {[gpair |-> UnitHess(g), cols |-> Matrix(v, AllMissing), nthread |-> 1,
    param |-> [DefaultParam EXCEPT !.learning_rate = TreesRate, !.max_depth = 1],
    trees |-> ts] :
     g \in AltGrads, v \in Feat0Vals,
     ts \in {[i \in 1..k |-> EmptyTree] : k \in 1..MaxTrees}
            \cup {<<GrownTree>>, <<EmptyTree, GrownTree>>}}

\* every parallel_option and both sampling fractions, up to one thread more
\* than the other families, second column empty, dense or sparse
FamilyParallel ==
  {[gpair |-> UnitHess(g), cols |-> Matrix(v, w), nthread |-> nt,
    param |-> [DefaultParam EXCEPT !.parallel_option = po, !.colsample_bytree = bt,
                                   !.colsample_bylevel = bl]] :
     g \in AltGrads, v \in Feat0Vals, w \in {AllMissing, Reversed, EvenRows},
     nt \in 1..(MaxThreads + 1), po \in {0, 1, 2}, bt \in {1, 2}, bl \in {1, 2}}

ParallelConfigs == FamilyParallel \cup FamilyTrees

InitConfigs ==
  FamilySweep \cup FamilyScenario \cup FamilyFiltered \cup FamilyDirection
    \cup FamilyColumns \cup FamilyWide \cup FamilyBudget \cup FamilyTrees

NoPar == [scanned |-> {}, offers |-> << >>]

NoCall == [tid |-> -1, fid |-> -1, fwd |-> FALSE, bwd |-> FALSE,
           pre |-> << >>, offers |-> << >>]

\* the state at the call of RobustColMaker::Update on one of the inputs of S
InitFrom(S) ==
  \E c \in S :
    /\ gpair = c.gpair
    /\ cols = c.cols
    /\ param = c.param
    /\ nthread = c.nthread
    /\ trees = (IF "trees" \in DOMAIN c THEN c.trees ELSE <<EmptyTree>>)
    /\ cur = 0
    /\ lr = 0
    /\ given = c.param
    /\ tree = EmptyTree
    /\ position = << >>
    /\ snode = << >>
    /\ stemp = << >>
    /\ qexpand = << >>
    /\ newnodes = << >>
    /\ feat_index = {}
    /\ feat_set = {}
    /\ todo = {}
    /\ depth = 0
    /\ pc = "Update"
    /\ call = NoCall
    /\ splits = << >>
    /\ par = NoPar

Init == InitFrom(InitConfigs)

InitParallel == InitFrom(ParallelConfigs)

\* ------------------------------------------------------------------ actions
\* colsample fractions are carried in halves: 2 is 1.0
SampleCount(frac, size) == Max(1, (frac * size) \div 2)

\* LoopHead whose test is <= instead of <
LoopHeadInclusive(dep, q) == IF dep <= param.max_depth THEN "FindSplit" ELSE "Finish"

\* where the depth loop of Builder::Update goes from its head
LoopHead(dep, q) == IF dep < param.max_depth THEN "FindSplit" ELSE "Finish"

\* IsNewTree that accepts every tree
IsNewTreeAlways(t) == TRUE

\* the CHECK_EQ of InitData: num_nodes equals num_roots (one root)
IsNewTree(t) == NumNodes(t) = 1

\* Rescale that leaves the rate as it is
RescaleNone(rate, k) == rate

\* the param_.learning_rate the builders get: lr / trees.size(); the rates
\* of the data sets are multiples of the number of trees, so the float
\* division is exact
Rescale(rate, k) == rate \div k

\* RobustColMaker::Update up to the construction of the first Builder
UpdateEnter ==
  /\ pc = "Update"
  /\ lr' = param.learning_rate
  /\ param' = [param EXCEPT !.learning_rate = Rescale(param.learning_rate, Len(trees))]
  /\ cur' = 1
  /\ tree' = trees[1]
  /\ pc' = "InitData"
  /\ UNCHANGED <<par, splits, gpair, cols, nthread, position, snode, stemp, qexpand, newnodes,
                 feat_index, feat_set, todo, depth, call, trees, given>>

\* the next iteration of the loop over trees: a new Builder on the next tree
NextBuilder ==
  /\ pc = "Done"
  /\ cur < Len(trees)
  /\ cur' = cur + 1
  /\ tree' = trees[cur + 1]
  /\ position' = << >>
  /\ snode' = << >>
  /\ stemp' = << >>
  /\ qexpand' = << >>
  /\ newnodes' = << >>
  /\ feat_index' = {}
  /\ feat_set' = {}
  /\ todo' = {}
  /\ depth' = 0
  /\ splits' = << >>
  /\ pc' = "InitData"
  /\ UNCHANGED <<par, gpair, cols, param, nthread, call, trees, lr, given>>

\* the end of RobustColMaker::Update: param_.learning_rate = lr
UpdateReturn ==
  /\ pc = "Done"
  /\ cur = Len(trees)
  /\ param' = [param EXCEPT !.learning_rate = lr]
  /\ pc' = "Returned"
  /\ UNCHANGED <<par, splits, gpair, cols, nthread, tree, position, snode, stemp, qexpand,
                 newnodes, feat_index, feat_set, todo, depth, call, outer>>

\* InitData on a tree that has more nodes than roots: the CHECK_EQ throws
\* before anything is written, and the exception leaves Update
InitDataFatal ==
  /\ pc = "InitData"
  /\ ~IsNewTree(tree)
  /\ pc' = "Fatal"
  /\ UNCHANGED <<par, splits, gpair, cols, param, nthread, tree, position, snode, stemp,
                 qexpand, newnodes, feat_index, feat_set, todo, depth, call, outer>>

\* position_ after the three loops of InitData: every row at root 0, the
\* rows of negative hessian complemented, then ("mark subsample") the rows
\* of the others whose coin flip fails; keep[i] is the flip of row i
InitPosition(keep) ==
  [i \in Instances |->
     IF gpair[i].h < 0 THEN Complement(0)
     ELSE IF param.subsample < 2 /\ ~keep[i] THEN Complement(0)
     ELSE 0]

\* Builder::InitData
InitData ==
  /\ pc = "InitData"
  /\ IsNewTree(tree)
  /\ \E keep \in [Instances -> BOOLEAN] :
       /\ \A i \in Instances : (param.subsample >= 2 \/ gpair[i].h < 0) => keep[i]
       /\ position' = InitPosition(keep)
  /\ \E fs \in SUBSET {f \in FeatIds : Len(cols[f]) # 0} :
       /\ Cardinality(fs) =
            SampleCount(param.colsample_bytree,
                        Cardinality({f \in FeatIds : Len(cols[f]) # 0}))
       /\ feat_index' = fs
  /\ stemp' = [tid \in 0..(nthread - 1) |-> << >>]
  /\ qexpand' = <<0>>
  /\ pc' = "InitRoot"
  /\ UNCHANGED <<par, splits, gpair, cols, param, nthread, tree, snode, newnodes, feat_set,
                 todo, depth, call,
                 outer>>

\* InitNewNode(qexpand_) of Builder::Update, before the depth loop
InitRoot ==
  /\ pc = "InitRoot"
  /\ LET st == InitNewNodeTemp(stemp, tree, position)
     IN /\ stemp' = st
        /\ snode' = InitNewNodeSnode(snode, st, tree, qexpand)
  /\ pc' = LoopHead(depth, qexpand)
  /\ UNCHANGED <<par, splits, gpair, cols, param, nthread, tree, position, qexpand, newnodes,
                 feat_index, feat_set, todo, depth, call,
                 outer>>

\* FindSplit up to the column iterator: the per-level feature sample
FindSplitSample ==
  /\ pc = "FindSplit"
  /\ \E fs \in SUBSET feat_index :
       /\ Cardinality(fs) =
            (IF param.colsample_bylevel # 2
             THEN SampleCount(param.colsample_bylevel, Cardinality(feat_index))
             ELSE Cardinality(feat_index))
       /\ feat_set' = fs
       /\ todo' = fs
  /\ par' = NoPar
  /\ pc' = "UpdateSolution"
  /\ UNCHANGED <<splits, gpair, cols, param, nthread, tree, position, snode, stemp,
                 qexpand, newnodes, feat_index, depth, call,
                 outer>>

\* poption of UpdateSolution: parallel_option, option 2 resolved by the
\* number of features of the level and the number of threads
Poption(nf) ==
  IF param.parallel_option = 2 THEN (IF nf * 2 < nthread THEN 1 ELSE 0)
  ELSE param.parallel_option

\* one iteration of the parallel loop of UpdateSolution (poption == 0), run
\* by thread tid: the forward and the backward EnumerateSplit of feature fid
EnumerateFeature(fid, tid) ==
  LET fwd == NeedForwardSearch(fid)
      bwd == NeedBackwardSearch(fid)
      a0  == [temp |-> stemp[tid], offers |-> << >>]
      a1  == IF fwd THEN EnumerateSplit(a0, cols[fid], 1, fid, param.robust_eps) ELSE a0
      a2  == IF bwd THEN EnumerateSplit(a1, cols[fid], -1, fid, param.robust_eps) ELSE a1
  IN /\ stemp' = [stemp EXCEPT ![tid] = a2.temp]
     /\ call' = [tid |-> tid, fid |-> fid, fwd |-> fwd, bwd |-> bwd,
                 pre |-> stemp[tid], offers |-> a2.offers]

UpdateSolution ==
  /\ pc = "UpdateSolution"
  /\ Poption(Cardinality(feat_set)) = 0
  /\ \E fid \in todo, tid \in 0..(nthread - 1) :
       /\ EnumerateFeature(fid, tid)
       /\ todo' = todo \ {fid}
  /\ UNCHANGED <<par, splits, gpair, cols, param, nthread, tree, position, snode, qexpand,
                 newnodes, feat_index, feat_set, depth, pc,
                 outer>>

\* ------------------------------------------------------- ParallelFindSplit
\* the slice of the column thread tid scans: [tid * step, min(length, step * (tid + 1)))
ChunkOf(col, tid) ==
  LET step == (Len(col) + nthread - 1) \div nthread
  IN SubSeq(col, tid * step + 1, Min(Len(col), step * (tid + 1)))

\* "cleanup temp statistics" and the first scan of a thread over its slice
RECURSIVE ParFirstScan(_, _, _)
ParFirstScan(temp, chunk, k) ==
  IF k > Len(chunk) THEN temp
  ELSE LET it  == chunk[k]
           nid == position[it.index]
       IN ParFirstScan(
            IF nid < 0 THEN temp
            ELSE [temp EXCEPT ![nid] =
                    [@ EXCEPT !.first_fvalue =
                                IF StatsEmpty(temp[nid].stats) THEN it.fvalue ELSE @,
                              !.stats = StatsAdd(@, gpair[it.index]),
                              !.last_fvalue = it.fvalue]],
            chunk, k + 1)

\* the partial sums of node nid over the threads, with the swap of
\* last_fvalue and first_fvalue between neighbours
RECURSIVE ParPrefix(_, _, _, _)
ParPrefix(st, nid, tid, sum) ==
  IF tid >= nthread THEN [st |-> st, sum |-> sum]
  ELSE LET tmp == st[tid][nid].stats
           s1  == [st EXCEPT ![tid][nid].stats = sum]
           s2  == IF tid # 0
                  THEN [s1 EXCEPT ![tid - 1][nid].last_fvalue = s1[tid][nid].first_fvalue,
                                  ![tid][nid].first_fvalue = s1[tid - 1][nid].last_fvalue]
                  ELSE s1
       IN ParPrefix(s2, nid, tid + 1, StatsAdd(sum, tmp))

\* e.best.Update of thread tid for node nid, and the record of the candidate
ParUpdate(acc, tid, nid, loss, fid, thr, dleft) ==
  [st     |-> [acc.st EXCEPT ![tid][nid].best = BestUpdate(@, loss, fid, thr, dleft)],
   offers |-> Append(acc.offers,
                     [nid |-> nid, fid |-> fid, loss_chg |-> loss, thr |-> thr,
                      default_left |-> dleft])]

ParGate(a, b) == a.h >= param.min_child_weight /\ b.h >= param.min_child_weight

ParLoss(nid, a, b) == ComputeSplitScore(a, b) - snode[nid].root_gain

\* the candidates at the borders between the slices
RECURSIVE ParBoundary(_, _, _, _, _)
ParBoundary(acc, nid, tid, sum, fid) ==
  IF tid >= nthread THEN acc
  ELSE
    LET a0     == [acc EXCEPT !.st[tid][nid].stats_extra = sum]
        e      == a0.st[tid][nid]
        skip   == tid # 0 /\ a0.st[tid - 1][nid].last_fvalue = e.first_fvalue
        fsplit == IF tid # 0
                  THEN (a0.st[tid - 1][nid].last_fvalue + e.first_fvalue) \div 2
                  ELSE e.first_fvalue - kRtEpsVal
        cf     == StatsSub(snode[nid].stats, e.stats)
        a1     == IF ~skip /\ NeedForwardSearch(fid) /\ tid # 0 /\ ParGate(cf, e.stats)
                  THEN ParUpdate(a0, tid, nid, ParLoss(nid, e.stats, cf), fid, fsplit, FALSE)
                  ELSE a0
        tmp    == StatsSub(sum, e.stats)
        cb     == StatsSub(snode[nid].stats, tmp)
        a2     == IF ~skip /\ NeedBackwardSearch(fid) /\ ParGate(cb, tmp)
                  THEN ParUpdate(a1, tid, nid, ParLoss(nid, tmp, cb), fid, fsplit, TRUE)
                  ELSE a1
    IN ParBoundary(a2, nid, tid + 1, sum, fid)

\* "start collecting the partial sum statistics" for one node
ParNode(acc, nid, fid) ==
  LET p  == ParPrefix(acc.st, nid, 0, ZeroStats)
      a1 == ParBoundary([st |-> p.st, offers |-> acc.offers], nid, 0, p.sum, fid)
      e  == a1.st[nthread - 1][nid]
      c  == StatsSub(snode[nid].stats, p.sum)
  IN IF NeedBackwardSearch(fid) /\ ParGate(c, p.sum)
     THEN ParUpdate(a1, nthread - 1, nid, ParLoss(nid, p.sum, c), fid,
                    e.last_fvalue + kRtEpsVal, TRUE)
     ELSE a1

RECURSIVE ParNodes(_, _, _, _)
ParNodes(acc, q, i, fid) ==
  IF i > Len(q) THEN acc ELSE ParNodes(ParNode(acc, q[i], fid), q, i + 1, fid)

\* "rescan, generate candidate split" of thread tid over its slice
RECURSIVE ParRescan(_, _, _, _, _)
ParRescan(acc, tid, chunk, k, fid) ==
  IF k > Len(chunk) THEN acc
  ELSE
    LET it  == chunk[k]
        nid == position[it.index]
    IN IF nid < 0 THEN ParRescan(acc, tid, chunk, k + 1, fid)
       ELSE
         LET e      == acc.st[tid][nid]
             mid    == (it.fvalue + e.first_fvalue) \div 2
             try    == ~StatsEmpty(e.stats) /\ it.fvalue # e.first_fvalue
             cf     == StatsSub(snode[nid].stats, e.stats)
             a1     == IF try /\ NeedForwardSearch(fid) /\ ParGate(cf, e.stats)
                       THEN ParUpdate(acc, tid, nid, ParLoss(nid, e.stats, cf), fid, mid, FALSE)
                       ELSE acc
             cright == StatsSub(e.stats_extra, e.stats)
             cb     == StatsSub(snode[nid].stats, cright)
             a2     == IF try /\ NeedBackwardSearch(fid) /\ ParGate(cb, cright)
                       THEN ParUpdate(a1, tid, nid, ParLoss(nid, cb, cright), fid, mid, TRUE)
                       ELSE a1
             a3     == [a2 EXCEPT !.st[tid][nid].stats = StatsAdd(@, gpair[it.index]),
                                  !.st[tid][nid].first_fvalue = it.fvalue]
         IN ParRescan(a3, tid, chunk, k + 1, fid)

RECURSIVE ParRescans(_, _, _, _)
ParRescans(acc, tid, col, fid) ==
  IF tid >= nthread THEN acc
  ELSE ParRescans(ParRescan(acc, tid, ChunkOf(col, tid), 1, fid), tid + 1, col, fid)

\* Builder::ParallelFindSplit on column `col`, offered under feature id fid
ParallelFindSplit(acc, col, fid) ==
  LET st1 == [tid \in DOMAIN acc.st |->
                ParFirstScan([n \in DOMAIN acc.st[tid] |->
                                IF n \in {qexpand[i] : i \in 1..Len(qexpand)}
                                THEN [acc.st[tid][n] EXCEPT !.stats = ZeroStats]
                                ELSE acc.st[tid][n]],
                             ChunkOf(col, tid), 1)]
      a1  == ParNodes([st |-> st1, offers |-> acc.offers], qexpand, 1, fid)
  IN ParRescans(a1, 0, col, fid)

\* the loop of UpdateSolution for poption != 0: fid runs over
\* 0 .. num_features - 1 and the column scanned is batch[fid]
RECURSIVE ParallelLoop(_, _, _)
ParallelLoop(acc, fid, num_features) ==
  IF fid >= num_features THEN acc
  ELSE ParallelLoop(ParallelFindSplit(acc, cols[fid], fid), fid + 1, num_features)

\* values an uninitialized bst_float of a new ThreadEntry may hold
UnsetVals == {0, 4}

\* UpdateSolution for poption != 0; the first_fvalue and last_fvalue of the
\* entries of the frontier nodes, new at this level, have never been written
UpdateSolutionParallel ==
  /\ pc = "UpdateSolution"
  /\ todo # {} /\ todo = feat_set
  /\ Poption(Cardinality(feat_set)) # 0
  /\ \E u \in UnsetVals, v \in UnsetVals :
       LET st0 == [tid \in DOMAIN stemp |->
                     [n \in DOMAIN stemp[tid] |->
                        IF n \in {qexpand[i] : i \in 1..Len(qexpand)}
                        THEN [stemp[tid][n] EXCEPT !.first_fvalue = u, !.last_fvalue = v]
                        ELSE stemp[tid][n]]]
           r   == ParallelLoop([st |-> st0, offers |-> << >>], 0, Cardinality(feat_set))
       IN /\ stemp' = r.st
          /\ par' = [scanned |-> 0..(Cardinality(feat_set) - 1), offers |-> r.offers]
  /\ todo' = {}
  /\ UNCHANGED <<splits, gpair, cols, param, nthread, tree, position, snode, qexpand,
                 newnodes, feat_index, feat_set, depth, pc, call, outer>>

\* SyncBest that assigns each thread's best instead of merging it
RECURSIVE SyncBestOverwrite(_, _, _)
SyncBestOverwrite(b, nid, tid) ==
  IF tid >= nthread THEN b
  ELSE SyncBestOverwrite(stemp[tid][nid].best, nid, tid + 1)

\* Builder::SyncBestSolution for one node
RECURSIVE SyncBest(_, _, _)
SyncBest(b, nid, tid) ==
  IF tid >= nthread THEN b
  ELSE SyncBest(BestMerge(b, stemp[tid][nid].best), nid, tid + 1)

\* CommitLoop whose test is >= instead of >
RECURSIVE CommitLoopInclusive(_, _, _, _)
CommitLoopInclusive(t, sn, q, i) ==
  IF i > Len(q) THEN t
  ELSE LET nid == q[i]
       IN CommitLoopInclusive(
            IF sn[nid].best.loss_chg >= kRtEpsLoss
            THEN AddSplitNode(t, nid, sn[nid].best)
            ELSE SetLeaf(t, nid, sn[nid].weight * param.learning_rate, -1),
            sn, q, i + 1)

\* the commit loop of FindSplit over qexpand
RECURSIVE CommitLoop(_, _, _, _)
CommitLoop(t, sn, q, i) ==
  IF i > Len(q) THEN t
  ELSE LET nid == q[i]
       IN CommitLoop(
            IF sn[nid].best.loss_chg > kRtEpsLoss
            THEN AddSplitNode(t, nid, sn[nid].best)
            ELSE SetLeaf(t, nid, sn[nid].weight * param.learning_rate, -1),
            sn, q, i + 1)

\* FindSplit after the column iterator: SyncBestSolution and the commit loop
FindSplitCommit ==
  /\ pc = "UpdateSolution"
  /\ todo = {}
  /\ LET sn == [n \in DOMAIN snode |->
                  IF \E i \in 1..Len(qexpand) : qexpand[i] = n
                  THEN [snode[n] EXCEPT !.best = SyncBest(@, n, 0)]
                  ELSE snode[n]]
     IN /\ snode' = sn
        /\ tree' = CommitLoop(tree, sn, qexpand, 1)
  /\ pc' = "ResetPosition"
  /\ UNCHANGED <<par, splits, gpair, cols, param, nthread, position, stemp, qexpand, newnodes,
                 feat_index, feat_set, todo, depth, call,
                 outer>>

\* ------------------------------------------------------------ ResetPosition
\* fsplits of SetNonDefaultPosition: the split features of the frontier
\* nodes that are not leaves, sorted, without repetition
SplitFeatures(t, q) ==
  SortedSeq({t[q[i]].sindex : i \in {j \in 1..Len(q) : ~IsLeaf(t, q[j])}})

\* the body of the loop over the entries of a split column
NonDefaultEntry(pos, t, it, fid) ==
  LET nid == DecodePosition(pos, it.index)
  IN IF ~IsLeaf(t, nid) /\ t[nid].sindex = fid
     THEN IF it.fvalue < t[nid].split_cond
          THEN SetEncodePosition(pos, it.index, t[nid].cleft)
          ELSE SetEncodePosition(pos, it.index, t[nid].cright)
     ELSE pos

RECURSIVE NonDefaultColumn(_, _, _, _, _)
NonDefaultColumn(pos, t, col, j, fid) ==
  IF j > Len(col) THEN pos
  ELSE NonDefaultColumn(NonDefaultEntry(pos, t, col[j], fid), t, col, j + 1, fid)

\* Builder::SetNonDefaultPosition
RECURSIVE SetNonDefaultPosition(_, _, _, _)
SetNonDefaultPosition(pos, t, fs, k) ==
  IF k > Len(fs) THEN pos
  ELSE SetNonDefaultPosition(NonDefaultColumn(pos, t, cols[fs[k]], 1, fs[k]),
                             t, fs, k + 1)

\* DefaultRow that pushes to the branch opposite to the default one
DefaultRowFlipped(pos, t, ridx) ==
  LET nid == DecodePosition(pos, ridx)
  IN IF IsLeaf(t, nid)
     THEN IF t[nid].cright = -1
          THEN [pos EXCEPT ![ridx] = Complement(nid)]
          ELSE pos
     ELSE IF t[nid].default_left
          THEN SetEncodePosition(pos, ridx, t[nid].cright)
          ELSE SetEncodePosition(pos, ridx, t[nid].cleft)

\* DefaultRow that marks the rows it pushes to the default branch as excluded
DefaultRowExcluded(pos, t, ridx) ==
  LET nid == DecodePosition(pos, ridx)
  IN IF IsLeaf(t, nid)
     THEN IF t[nid].cright = -1
          THEN [pos EXCEPT ![ridx] = Complement(nid)]
          ELSE pos
     ELSE [pos EXCEPT ![ridx] =
             Complement(IF t[nid].default_left THEN t[nid].cleft ELSE t[nid].cright)]

\* the body of the loop over the rows of ResetPosition
DefaultRow(pos, t, ridx) ==
  LET nid == DecodePosition(pos, ridx)
  IN IF IsLeaf(t, nid)
     THEN IF t[nid].cright = -1
          THEN [pos EXCEPT ![ridx] = Complement(nid)]
          ELSE pos
     ELSE IF t[nid].default_left
          THEN SetEncodePosition(pos, ridx, t[nid].cleft)
          ELSE SetEncodePosition(pos, ridx, t[nid].cright)

RECURSIVE DefaultRows(_, _, _)
DefaultRows(pos, t, i) ==
  IF i > Len(gpair) THEN pos ELSE DefaultRows(DefaultRow(pos, t, i), t, i + 1)

\* Builder::ResetPosition
ResetPositionOp(pos, t, q) ==
  DefaultRows(SetNonDefaultPosition(pos, t, SplitFeatures(t, q), 1), t, 1)

ResetPosition ==
  /\ pc = "ResetPosition"
  /\ position' = ResetPositionOp(position, tree, qexpand)
  /\ pc' = "Expand"
  /\ call' = NoCall
  /\ UNCHANGED <<par, splits, gpair, cols, param, nthread, tree, snode, stemp, qexpand,
                 newnodes, feat_index, feat_set, todo, depth,
                 outer>>

\* UpdateQueueExpand that pushes the right child before the left one
RECURSIVE UpdateQueueExpandSwapped(_, _, _)
UpdateQueueExpandSwapped(t, q, i) ==
  IF i > Len(q) THEN << >>
  ELSE (IF IsLeaf(t, q[i]) THEN << >> ELSE <<t[q[i]].cright, t[q[i]].cleft>>)
       \o UpdateQueueExpandSwapped(t, q, i + 1)

\* Builder::UpdateQueueExpand
RECURSIVE UpdateQueueExpand(_, _, _)
UpdateQueueExpand(t, q, i) ==
  IF i > Len(q) THEN << >>
  ELSE (IF IsLeaf(t, q[i]) THEN << >> ELSE <<t[q[i]].cleft, t[q[i]].cright>>)
       \o UpdateQueueExpand(t, q, i + 1)

\* the loop of Builder::Update over qexpand_ that hands the committed
\* splits to the evaluator: one AddSplit call per node that is not a leaf,
\* with the weights snode_ holds for the children at that moment
RECURSIVE AddSplitCalls(_, _, _, _)
AddSplitCalls(t, sn, q, i) ==
  IF i > Len(q) THEN << >>
  ELSE (IF IsLeaf(t, q[i]) THEN << >>
        ELSE <<[nid |-> q[i], cleft |-> t[q[i]].cleft, cright |-> t[q[i]].cright,
                fid |-> sn[q[i]].best.sindex,
                wleft |-> sn[t[q[i]].cleft].weight,
                wright |-> sn[t[q[i]].cright].weight]>>)
       \o AddSplitCalls(t, sn, q, i + 1)

\* the rest of an iteration of the depth loop: UpdateQueueExpand,
\* InitNewNode(newnodes), the AddSplit loop, qexpand_ = newnodes, the break
\* and the loop test
Expand ==
  /\ pc = "Expand"
  /\ LET nn == UpdateQueueExpand(tree, qexpand, 1)
         st == InitNewNodeTemp(stemp, tree, position)
         sn == InitNewNodeSnode(snode, st, tree, nn)
     IN /\ newnodes' = nn
        /\ stemp' = st
        /\ snode' = sn
        /\ splits' = splits \o AddSplitCalls(tree, sn, qexpand, 1)
        /\ qexpand' = nn
        /\ pc' = IF Len(nn) = 0 THEN "Finish" ELSE LoopHead(depth + 1, nn)
  /\ depth' = depth + 1
  /\ UNCHANGED <<par, gpair, cols, param, nthread, tree, position, feat_index,
                 feat_set, todo, call,
                 outer>>

RECURSIVE FinishLoop(_, _, _)
FinishLoop(t, q, i) ==
  IF i > Len(q) THEN t
  ELSE FinishLoop(SetLeaf(t, q[i], snode[q[i]].weight * param.learning_rate, -1),
                  q, i + 1)

\* the end of Builder::Update: "set all the rest expanding nodes to leaf"
Finish ==
  /\ pc = "Finish"
  /\ tree' = FinishLoop(tree, qexpand, 1)
  /\ trees' = [trees EXCEPT ![cur] = tree']
  /\ pc' = "Done"
  /\ UNCHANGED <<par, splits, gpair, cols, param, nthread, position, snode, stemp, qexpand,
                 newnodes, feat_index, feat_set, todo, depth, call,
                 cur, lr, given>>

Next ==
  \/ UpdateEnter
  \/ InitData
  \/ InitDataFatal
  \/ InitRoot
  \/ FindSplitSample
  \/ UpdateSolution
  \/ FindSplitCommit
  \/ ResetPosition
  \/ Expand
  \/ Finish
  \/ NextBuilder
  \/ UpdateReturn

Spec == Init /\ [][Next]_vars

\* the runs whose TrainParam may ask for the within-column-parallel search
NextParallel == Next \/ UpdateSolutionParallel

SpecParallel == InitParallel /\ [][NextParallel]_vars

\* ==================================================================== claims
\* eligible instances at node n
NodeRows(n) == {i \in Instances : position[i] = n}

\* eligible instances at node n with an entry in column f
ValuedRows(n, f) == {i \in NodeRows(n) : HasEntry(f, i)}

\* the candidates the last loop iteration offered in its main sweeps
MainOffers ==
  {call.offers[k] : k \in {j \in 1..Len(call.offers) : call.offers[j].kind = "main"}}

\* instances the adversary cannot move across the threshold o.thr, and can
CertainLeft(o) ==
  {i \in ValuedRows(o.nid, o.fid) : EntryValue(o.fid, i) < o.thr - param.robust_eps}

Uncertain(o) ==
  {i \in ValuedRows(o.nid, o.fid) :
     /\ o.thr - param.robust_eps <= EntryValue(o.fid, i)
     /\ EntryValue(o.fid, i) < o.thr + param.robust_eps}

\* loss_chg of the placement that puts S (of the uncertain ones) left
PlacementLoss(o, S) == PartLoss(o.nid, SumStats(CertainLeft(o) \cup S), o.d)

\* the four placements of the main sweep, as subsets of the uncertain set
FourPlacements(o) ==
  {{i \in Uncertain(o) : EntryValue(o.fid, i) < o.thr},
   Uncertain(o),
   {},
   {i \in Uncertain(o) : EntryValue(o.fid, i) >= o.thr}}

\* C1 (as claimed): the loss_chg of every candidate of the main sweep is a
\* lower bound of split_score - root_gain over every placement of the
\* uncertain instances.
C1_LowerBoundAllPlacements ==
  \A o \in MainOffers : \A S \in SUBSET Uncertain(o) : PlacementLoss(o, S) >= o.loss_chg

\* C1 (amended): the offered loss_chg is a lower bound over the four
\* placements nominal, all-left, all-right and swap, and so over every
\* placement when at most one instance is uncertain.
C1_LowerBoundFourPlacements ==
  \A o \in MainOffers :
    /\ \A S \in FourPlacements(o) : PlacementLoss(o, S) >= o.loss_chg
    /\ Cardinality(Uncertain(o)) <= 1 =>
         \A S \in SUBSET Uncertain(o) : PlacementLoss(o, S) >= o.loss_chg

\* a committed candidate of positive loss_chg with uncertain instances on
\* both sides of its threshold
C1_Witness ==
  \E o \in MainOffers :
    /\ o.loss_chg > 0
    /\ \E i \in Uncertain(o) : EntryValue(o.fid, i) >= o.thr
    /\ \E i \in Uncertain(o) : EntryValue(o.fid, i) < o.thr

\* C1 (as claimed, positive candidates only): some placement of the
\* uncertain instances scores below a positive offered loss_chg
C1_PositiveLowerBound ==
  \A o \in MainOffers :
    o.loss_chg > 0 => \A S \in SUBSET Uncertain(o) : PlacementLoss(o, S) >= o.loss_chg

\* ------------------------------------------------------------------------ C2
\* the frontier as a set
Frontier == {qexpand[i] : i \in 1..Len(qexpand)}

\* best of node n after the robust sweep of the last enumerated column in
\* direction d, started from the entries the thread had before
RobustBest(n, d) ==
  EnumerateSplit([temp |-> call.pre, offers |-> << >>], cols[call.fid], d, call.fid,
                 param.robust_eps).temp[n].best

\* the same after the non-robust enumeration
NonRobustBest(n, d) == EnumerateSplitCacheOpt(call.pre, cols[call.fid], d, call.fid)[n].best

\* two bests lead to the same commit: equal, or neither is committed
SameCommit(a, b) == a = b \/ (a.loss_chg <= kRtEpsLoss /\ b.loss_chg <= kRtEpsLoss)

\* C2: with robust_eps = 0, for the column just enumerated, both sweep
\* directions and every frontier node, EnumerateSplit leaves the same best
\* (loss_chg, feature, threshold, default_left) as UpdateEnumeration over
\* the entries followed by the closing check of EnumerateSplitCacheOpt.
C2_Eps0EqualsNonRobust ==
  (call.tid # -1 /\ param.robust_eps = 0) =>
    \A d \in {1, -1} : \A n \in Frontier : SameCommit(RobustBest(n, d), NonRobustBest(n, d))

\* the same restricted to columns in which every instance has an entry
C2_Eps0EqualsNonRobustDense ==
  (call.tid # -1 /\ param.robust_eps = 0 /\ ~IsSparseCol(call.fid)
     /\ \A i \in Instances : gpair[i].h >= 0) =>
    \A d \in {1, -1} : \A n \in Frontier : SameCommit(RobustBest(n, d), NonRobustBest(n, d))

\* the same restricted to the forward sweep
C2_Eps0EqualsNonRobustForward ==
  (call.tid # -1 /\ param.robust_eps = 0) =>
    \A n \in Frontier : SameCommit(RobustBest(n, 1), NonRobustBest(n, 1))

\* ------------------------------------------------------------------------ C3
\* the entries of a thread that has enumerated nothing at this level
FreshTemp == [n \in DOMAIN tree |-> NewThreadEntry]

\* the enumeration of FindSplit over the features fs[k..] with budget e, by
\* one thread
RECURSIVE EnumerateAll(_, _, _, _)
EnumerateAll(temp, fs, k, e) ==
  IF k > Len(fs) THEN temp
  ELSE
    LET fid == fs[k]
        a0  == [temp |-> temp, offers |-> << >>]
        a1  == IF NeedForwardSearch(fid) THEN EnumerateSplit(a0, cols[fid], 1, fid, e) ELSE a0
        a2  == IF NeedBackwardSearch(fid) THEN EnumerateSplit(a1, cols[fid], -1, fid, e) ELSE a1
    IN EnumerateAll(a2.temp, fs, k + 1, e)

\* best loss_chg FindSplit selects for node n when robust_eps is e
BestLossAt(n, e) == EnumerateAll(FreshTemp, SortedSeq(feat_set), 1, e)[n].best.loss_chg

\* the re-evaluation at the budget of the run gives the selected best
ReplayAgrees ==
  pc = "ResetPosition" =>
    \A n \in Frontier : BestLossAt(n, param.robust_eps) = snode[n].best.loss_chg

\* C3: the best loss_chg selected for a frontier node is not larger than
\* the one selected, for the same gradients, matrix, min_child_weight and
\* frontier, with any smaller budget.
C3_MonotoneInEps ==
  pc = "ResetPosition" =>
    \A n \in Frontier : \A e1 \in EpsSet \cup BudgetEps :
      e1 <= param.robust_eps => BestLossAt(n, e1) >= snode[n].best.loss_chg

PrefixStats(n, f, v) == SumStats({i \in ValuedRows(n, f) : EntryValue(f, i) < v})

\* split_score - root_gain of every nominal partition of n: the instances
\* below an observed value against the rest, and all the instances with an
\* entry against those without
NominalGains(n) ==
  {0} \cup {PartLoss(n, SumStats(ValuedRows(n, f)), 1) : f \in feat_set}
      \cup UNION {{PartLoss(n, PrefixStats(n, f, EntryValue(f, i)), 1) :
                     i \in ValuedRows(n, f)} : f \in feat_set}

OfferPartitions(o) ==
  {o.stats_left} \cup
  (IF Len(o.unc) > 0
   THEN {StatsAdd(o.stats_c_left, o.stats_unc), o.stats_c_left,
         StatsAdd(o.stats_c_left, o.stats_unc_right)}
   ELSE {})

\* both sides of the partition reach min_child_weight
Admissible(n, left) ==
  /\ left.h >= param.min_child_weight
  /\ StatsSub(snode[n].stats, left).h >= param.min_child_weight

\* C4: the loss_chg a main-sweep candidate offers to best is the smallest
\* loss_chg among its partitions (nominal, all-left, all-right, swap) whose
\* two sides both have sum_hess >= min_child_weight; a partition with a
\* side below min_child_weight never determines it.
C4_OnlyAdmissiblePartitions ==
  \A o \in MainOffers :
    LET adm == {p \in OfferPartitions(o) : Admissible(o.nid, p)}
    IN /\ adm # {}
       /\ \E p \in adm : PartLoss(o.nid, p, o.d) = o.loss_chg
       /\ \A p \in adm : PartLoss(o.nid, p, o.d) >= o.loss_chg

\* what the code does test: the right side of the nominal partition
C4_NominalRightChecked ==
  \A o \in MainOffers :
    StatsSub(snode[o.nid].stats, o.stats_left).h >= param.min_child_weight

\* ------------------------------------------------------------------------ C5
\* C5: once InitNewNode has filled the statistics of the two children of a
\* committed split, both have sum_hess >= min_child_weight.
C5_ChildrenReachMinChildWeight ==
  \A n \in DOMAIN snode :
    tree[n].parent # -1 => snode[n].stats.h >= param.min_child_weight

\* the same for budget 0 and columns where every instance has an entry
C5_ChildrenReachMinChildWeightNonRobustDense ==
  (param.robust_eps = 0 /\ \A f \in FeatIds : Len(cols[f]) = 0 \/ ~IsSparseCol(f)) =>
    \A n \in DOMAIN snode :
      tree[n].parent # -1 => snode[n].stats.h >= param.min_child_weight

\* the same for budget 0
C5_ChildrenReachMinChildWeightNonRobust ==
  param.robust_eps = 0 =>
    \A n \in DOMAIN snode :
      tree[n].parent # -1 => snode[n].stats.h >= param.min_child_weight

\* ------------------------------------------------------------------------ C6
\* observed values of feature f among the eligible instances of node n
NodeValues(n, f) == {EntryValue(f, i) : i \in ValuedRows(n, f)}

\* two distinct observed values of n with no observed value between them
\* and the threshold t in (a, b]
Straddles(n, f, a, b, t) ==
  /\ a < t /\ t <= b
  /\ ~ \E c \in NodeValues(n, f) : a < c /\ c < b

\* frontier nodes whose split FindSplit has just committed
Committed == {n \in Frontier : ~IsLeaf(tree, n)}

\* C6: the stored threshold t of a committed split on feature f is the
\* midpoint of the two adjacent distinct observed values a < t <= b of the
\* node, when such values exist.
C6_MidpointLaw ==
  pc = "ResetPosition" =>
    \A n \in Committed :
      \A a, b \in NodeValues(n, tree[n].sindex) :
        Straddles(n, tree[n].sindex, a, b, tree[n].split_cond) =>
          2 * tree[n].split_cond = a + b

\* a split committed under a positive budget whose threshold lies between
\* two observed values of the node
C6_Witness ==
  /\ pc = "ResetPosition"
  /\ param.robust_eps > 0
  /\ \E n \in Committed :
       \E a, b \in NodeValues(n, tree[n].sindex) :
         Straddles(n, tree[n].sindex, a, b, tree[n].split_cond)

\* ------------------------------------------------------------------------ C7
\* the boundary scenario: values 1,1,1,10,10,10, gradients 1,1,1,-1,-1,-1,
\* unit hessians, min_child_weight 1, after FindSplit at the root
ScenarioRoot(e) ==
  /\ gpair = UnitHess(<<1, 1, 1, -1, -1, -1>>)
  /\ cols[0] = [i \in 1..6 |-> [index |-> i, fvalue |-> IF i <= 3 THEN 4 ELSE 40]]
  /\ param.min_child_weight = 1
  /\ param.robust_eps = e
  /\ pc = "ResetPosition"
  /\ depth = 0

C7_ScenarioNonRobust ==
  ScenarioRoot(0) =>
    /\ snode[0].best.loss_chg * 2 = 9 * GainScale
    /\ ~IsLeaf(tree, 0)
    /\ tree[0].split_cond = 22

\* ------------------------------------------------------------------------ C8
\* nodes of the tree whose parent is n
ChildrenOf(n) == {c \in DOMAIN tree : tree[c].parent = n}

\* C8: after the commit loop of FindSplit, a frontier node whose best
\* loss_chg exceeds kRtEps has exactly two children and stores the feature,
\* threshold and default direction of its best; any other frontier node
\* has no child and is a leaf of value weight * learning_rate.
C8_CommitRule ==
  pc = "ResetPosition" =>
    \A n \in Frontier :
      IF snode[n].best.loss_chg > kRtEpsLoss
      THEN /\ ~IsLeaf(tree, n)
           /\ ChildrenOf(n) = {tree[n].cleft, tree[n].cright}
           /\ Cardinality(ChildrenOf(n)) = 2
           /\ \A c \in ChildrenOf(n) : IsLeaf(tree, c) /\ tree[c].cright = 0
           /\ tree[n].sindex = snode[n].best.sindex
           /\ tree[n].split_cond = snode[n].best.split_value
           /\ tree[n].default_left = snode[n].best.default_left
      ELSE /\ ChildrenOf(n) = {}
           /\ IsLeaf(tree, n)
           /\ tree[n].cright = -1
           /\ tree[n].leaf_value = snode[n].weight * param.learning_rate

\* a level at which one frontier node is split and another becomes a leaf
\* of non-zero value
C8_Witness ==
  /\ pc = "ResetPosition"
  /\ \E n \in Frontier : snode[n].best.loss_chg > kRtEpsLoss
  /\ \E n \in Frontier :
       /\ snode[n].best.loss_chg <= kRtEpsLoss
       /\ snode[n].weight # 0
       /\ param.learning_rate # 1

\* ------------------------------------------------------------------------ C9
\* C9: when Builder::Update has returned no node is deeper than max_depth
\* and every leaf is finalized with value weight * learning_rate; the body
\* of the depth loop only runs with depth < max_depth and a frontier that
\* is not empty, and depth never exceeds max_depth.
C9_DepthCapAndLeaves ==
  /\ depth <= param.max_depth
  /\ pc \in {"FindSplit", "UpdateSolution", "ResetPosition", "Expand"} =>
       depth < param.max_depth /\ Len(qexpand) > 0
  /\ pc = "Done" =>
       /\ depth <= param.max_depth
       /\ \A n \in DOMAIN tree :
            /\ NodeDepth(tree, n) <= param.max_depth
            /\ IsLeaf(tree, n) =>
                 /\ tree[n].cright = -1
                 /\ n \in DOMAIN snode
                 /\ tree[n].leaf_value = snode[n].weight * param.learning_rate

\* Update has returned with a leaf at depth max_depth > 0 that the final
\* loop has set, of non-zero value
C9_Witness ==
  /\ pc = "Done"
  /\ param.max_depth > 0
  /\ \E n \in DOMAIN tree :
       /\ NodeDepth(tree, n) = param.max_depth
       /\ tree[n].leaf_value # 0

\* ----------------------------------------------------------------------- C10
\* the child of the committed node n that instance i belongs to
ChildFor(n, i) ==
  LET f == tree[n].sindex
  IN IF HasEntry(f, i)
     THEN (IF EntryValue(f, i) < tree[n].split_cond THEN tree[n].cleft ELSE tree[n].cright)
     ELSE (IF tree[n].default_left THEN tree[n].cleft ELSE tree[n].cright)

\* C10: ResetPosition moves every instance, eligible or excluded, that is
\* at a frontier node with a committed split (f, t) to the left child if
\* its value of f is < t, to the right child if it is >= t, and to the
\* default child if it has no entry; the instance stays eligible or
\* excluded as it was.
C10_ResetPositionRouting ==
  [][pc = "ResetPosition" =>
       \A i \in Instances :
         LET n == DecodePosition(position, i)
         IN n \in Committed =>
              /\ DecodePosition(position', i) = ChildFor(n, i)
              /\ (position'[i] < 0) = (position[i] < 0)]_vars

\* ResetPosition has moved an instance without entry in the split column
\* and an excluded instance to children of a committed node
C10_Witness ==
  /\ pc = "Expand"
  /\ \E n \in Committed :
       /\ \E i \in Instances :
            /\ ~HasEntry(tree[n].sindex, i)
            /\ position[i] \in {tree[n].cleft, tree[n].cright}
       /\ \E j \in Instances :
            /\ position[j] < 0
            /\ DecodePosition(position, j) \in {tree[n].cleft, tree[n].cright}

\* ----------------------------------------------------------------------- C11
\* instances InitData excludes for their negative hessian
Filtered == {i \in Instances : gpair[i].h < 0}

\* a stored column of the matrix that has no row x
ColWithout(col, x) == SelectSeq(col, LAMBDA it : it.index # x)

\* the two tests of UpdateSolution on the matrix that has no row x
SparseWithout(fid, x) == Len(ColWithout(cols[fid], x)) < Len(gpair) - 1

IndicatorWithout(fid, x) ==
  LET c == ColWithout(cols[fid], x)
  IN Len(c) # 0 /\ c[1].fvalue = c[Len(c)].fvalue

ForwardWithout(fid, x) ==
  \/ param.default_direction = 2
  \/ param.default_direction = 0 /\ SparseWithout(fid, x) /\ ~IndicatorWithout(fid, x)

\* the enumeration of FindSplit on the matrix that has no row x: a column
\* left without entry is not in feat_index_
RECURSIVE EnumerateAllWithout(_, _, _, _)
EnumerateAllWithout(temp, fs, k, x) ==
  IF k > Len(fs) THEN temp
  ELSE
    LET fid == fs[k]
        col == ColWithout(cols[fid], x)
        a0  == [temp |-> temp, offers |-> << >>]
        a1  == IF Len(col) # 0 /\ ForwardWithout(fid, x)
               THEN EnumerateSplit(a0, col, 1, fid, param.robust_eps) ELSE a0
        a2  == IF Len(col) # 0 /\ NeedBackwardSearch(fid)
               THEN EnumerateSplit(a1, col, -1, fid, param.robust_eps) ELSE a1
    IN EnumerateAllWithout(a2.temp, fs, k + 1, x)

\* best FindSplit selects for node n on the data without row x
BestWithout(n, x) == EnumerateAllWithout(FreshTemp, SortedSeq(feat_set), 1, x)[n].best

\* the instances an offer holds in its queues
QueueRows(o) ==
  {o.unc[j] : j \in 1..Len(o.unc)} \cup {o.unc_right[j] : j \in 1..Len(o.unc_right)}

\* the filtered instances are negative-encoded from InitData on, no node
\* statistic, scan accumulator or queue holds one, and none triggers a
\* candidate
FilteredExcluded ==
  /\ pc \notin {"Update", "InitData", "Fatal"} => \A x \in Filtered : position[x] < 0
  /\ pc \in {"FindSplit", "UpdateSolution", "ResetPosition"} =>
       \A n \in Frontier : snode[n].stats = SumStats(NodeRows(n))
  /\ call.tid # -1 =>
       \A n \in Frontier : stemp[call.tid][n].stats = SumStats(ValuedRows(n, call.fid))
  /\ \A k \in 1..Len(call.offers) :
       LET o == call.offers[k]
       IN /\ QueueRows(o) \cap Filtered = {}
          /\ QueueRows(o) \subseteq ValuedRows(o.nid, o.fid)
          /\ o.fvalue \in NodeValues(o.nid, o.fid)
          /\ o.kind = "main" =>
               o.stats = SumStats({i \in ValuedRows(o.nid, o.fid) :
                                     EntryValue(o.fid, i) < o.fvalue})

\* C11: an instance of negative hessian is negative-encoded by InitData
\* whatever the subsample flips, enters no statistic and triggers no
\* candidate, and every level commits for every frontier node the split
\* (feature, threshold, default direction) or leaf that the same data
\* without that instance commits, so that the two trees are identical.
C11_FilteredSameTree ==
  /\ FilteredExcluded
  /\ pc = "ResetPosition" =>
       \A x \in Filtered : \A n \in Frontier : SameCommit(snode[n].best, BestWithout(n, x))

\* the exclusion alone
C11_FilteredExcludedOnly == FilteredExcluded

\* the same tree but for the default direction of the committed splits
C11_FilteredSameButDefault ==
  pc = "ResetPosition" =>
    \A x \in Filtered : \A n \in Frontier :
      SameCommit([snode[n].best EXCEPT !.default_left = FALSE],
                 [BestWithout(n, x) EXCEPT !.default_left = FALSE])

\* ----------------------------------------------------------------------- C12
\* the same entries stored in the opposite order
Reverse(col) == [k \in 1..Len(col) |-> col[Len(col) + 1 - k]]

\* EnumerateSplit of the column just enumerated, stored as `col`, in
\* direction d, from the entries the thread had before
SweepOf(col, d) ==
  EnumerateSplit([temp |-> call.pre, offers |-> << >>], col, d, call.fid, param.robust_eps)

\* (node, loss_chg, threshold) of the main-sweep candidates of a sweep
MainCandidates(a) ==
  {<<a.offers[k].nid, a.offers[k].loss_chg, a.offers[k].thr>> :
     k \in {j \in 1..Len(a.offers) : a.offers[j].kind = "main"}}

\* C12: for the column just enumerated and each direction d, EnumerateSplit
\* on the ascending and on the descending storage of the same entries
\* leaves every frontier node's best with the same loss_chg and threshold
\* (and feature and default direction); the forward and the backward sweep
\* offer the same main-sweep candidates (node, loss_chg, threshold).
C12_OrderIndependence ==
  call.tid # -1 =>
    /\ \A d \in {1, -1} : \A n \in Frontier :
         SweepOf(cols[call.fid], d).temp[n].best
           = SweepOf(Reverse(cols[call.fid]), d).temp[n].best
    /\ MainCandidates(SweepOf(cols[call.fid], 1))
         = MainCandidates(SweepOf(cols[call.fid], -1))
    /\ MainCandidates(SweepOf(Reverse(cols[call.fid]), 1))
         = MainCandidates(SweepOf(cols[call.fid], 1))

\* a column with two entries of equal value and a third one, enumerated
\* forward and backward under a positive budget, with a main-sweep
\* candidate that became the best of its node
C12_Witness ==
  /\ call.tid # -1 /\ call.fwd /\ call.bwd
  /\ param.robust_eps > 0
  /\ Reverse(cols[call.fid]) # cols[call.fid]
  /\ \E j \in 1..(Len(cols[call.fid]) - 1) :
       cols[call.fid][j].fvalue = cols[call.fid][j + 1].fvalue
  /\ \E o \in MainOffers : o.d = 1 /\ o.loss_chg > 0
  /\ \E o \in MainOffers : o.d = -1 /\ o.loss_chg > 0

\* ----------------------------------------------------------------------- C13
\* the enumeration of FindSplit by one thread over the features fs[k..],
\* keeping the candidates offered
RECURSIVE EnumerateAllOffers(_, _, _)
EnumerateAllOffers(acc, fs, k) ==
  IF k > Len(fs) THEN acc
  ELSE
    LET fid == fs[k]
        a1  == IF NeedForwardSearch(fid)
               THEN EnumerateSplit(acc, cols[fid], 1, fid, param.robust_eps) ELSE acc
        a2  == IF NeedBackwardSearch(fid)
               THEN EnumerateSplit(a1, cols[fid], -1, fid, param.robust_eps) ELSE a1
    IN EnumerateAllOffers(a2, fs, k + 1)

\* one worker that takes the sampled features in ascending order
OneWorker ==
  EnumerateAllOffers([temp |-> FreshTemp, offers |-> << >>], SortedSeq(feat_set), 1)

\* every candidate offered for node n at this level
LevelOffers(n) ==
  {OneWorker.offers[k] : k \in {j \in 1..Len(OneWorker.offers) : OneWorker.offers[j].nid = n}}

\* what SyncBestSolution leaves when one worker has taken every feature
CanonicalBest(n) == BestMerge(NewSplitEntry, OneWorker.temp[n].best)

\* C13: after SyncBestSolution, whatever the number of workers, the
\* worker that took each feature and the order of the features, the best
\* of every frontier node is the one a single worker taking the features
\* in ascending order leaves: no candidate of the level has a higher
\* loss_chg, none of equal loss_chg has a lower feature id, and a positive
\* best is a candidate of its feature.
C13_SyncDeterministic ==
  pc = "ResetPosition" =>
    \A n \in Frontier :
      /\ snode[n].best = CanonicalBest(n)
      /\ \A o \in LevelOffers(n) :
           /\ o.loss_chg <= snode[n].best.loss_chg
           /\ o.loss_chg = snode[n].best.loss_chg => snode[n].best.sindex <= o.fid
      /\ snode[n].best.loss_chg > 0 =>
           \E o \in LevelOffers(n) :
             /\ o.loss_chg = snode[n].best.loss_chg
             /\ o.fid = snode[n].best.sindex
             /\ (o.d = -1) = snode[n].best.default_left

\* two workers hold bests of different features for a node, of the same
\* positive loss_chg, and the higher feature was enumerated last
C13_Witness ==
  /\ pc = "ResetPosition"
  /\ nthread = 2
  /\ \E n \in Frontier :
       /\ stemp[0][n].best.loss_chg > 0
       /\ stemp[0][n].best.loss_chg = stemp[1][n].best.loss_chg
       /\ stemp[0][n].best.sindex > stemp[1][n].best.sindex
       /\ call.fid = stemp[0][n].best.sindex

\* ----------------------------------------------------------------------- C14
\* the leaves of tree t carry weight * rate, the weights being those of the
\* builder that has just finished (every builder of a call sees the same
\* gradients and matrix)
LeavesAtRate(t, rate) ==
  \A n \in DOMAIN t : IsLeaf(t, n) => t[n].leaf_value = snode[n].weight * rate

\* C14: from the construction of the first Builder to the last statement
\* of RobustColMaker::Update, param_.learning_rate is the configured value
\* divided by the number k >= 1 of trees, every tree whose builder has
\* finished has leaves of value weight * (configured / k), and when Update
\* has returned param_ is what it was before the call.
C14_LearningRateRescaled ==
  /\ pc \notin {"Update", "Returned"} =>
       /\ param.learning_rate * Len(trees) = given.learning_rate
       /\ lr = given.learning_rate
  /\ pc = "Done" =>
       \A j \in 1..cur :
         /\ trees[j] = tree
         /\ LeavesAtRate(trees[j], given.learning_rate \div Len(trees))
  /\ pc = "Returned" =>
       /\ param = given
       /\ cur = Len(trees)

\* Update has returned after building more than one tree, each with a
\* leaf of non-zero value, at a rate that differs from the configured one
C14_Witness ==
  /\ pc = "Returned"
  /\ Len(trees) > 1
  /\ param.learning_rate # Rescale(param.learning_rate, Len(trees))
  /\ \A j \in 1..Len(trees) :
       \E n \in DOMAIN trees[j] : IsLeaf(trees[j], n) /\ trees[j][n].leaf_value # 0

\* ----------------------------------------------------------------------- C15
\* C15: a builder only gets past InitData on a tree with as many nodes as
\* roots; on any other tree Builder::Update fails in InitData with the
\* tree as it was handed in, no position map, frontier, feature index,
\* node or thread statistics written and no split evaluated.
C15_GrownTreeFatal ==
  /\ pc \in {"InitRoot", "FindSplit", "UpdateSolution", "ResetPosition", "Expand",
             "Finish"} => NumNodes(trees[cur]) = 1
  /\ pc = "Fatal" =>
       /\ NumNodes(tree) # 1
       /\ tree = trees[cur]
       /\ position = << >>
       /\ qexpand = << >>
       /\ feat_index = {}
       /\ feat_set = {}
       /\ snode = << >>
       /\ stemp = << >>
       /\ newnodes = << >>
       /\ depth = 0
       /\ call = NoCall

\* the second builder of a call has failed on a grown tree after the
\* first one has built its tree
C15_Witness ==
  /\ pc = "Fatal"
  /\ cur = 2
  /\ NumNodes(trees[1]) # 1
  /\ trees[2] = GrownTree

\* ----------------------------------------------------------------------- C16
\* the directions in which the last loop iteration enumerated its column
Directions == {d \in {1, -1} : (d = 1 /\ call.fwd) \/ (d = -1 /\ call.bwd)}

\* scan positions of the column just enumerated: k entries visited
ScanPositions == IF call.tid = -1 THEN {} ELSE 0..Len(cols[call.fid])

\* the thread's entries when the main loop in direction d has visited the
\* first k entries of the column just enumerated
ScanPrefix(d, k) ==
  MainSweep([temp |-> ClearTemp(call.pre, qexpand), offers |-> << >>],
            SubSeq(ScanOrder(cols[call.fid], d), 1, k), 1, d, call.fid,
            param.robust_eps).temp

\* eligible instances of node n among the first k entries visited, and
\* among the others
ScannedRows(n, d, k) ==
  LET ord == ScanOrder(cols[call.fid], d)
  IN {ord[j].index : j \in {i \in 1..k : position[ord[i].index] = n}}

UnscannedRows(n, d, k) == ValuedRows(n, call.fid) \ ScannedRows(n, d, k)

\* eligible instances of node n with no entry in the column just enumerated
NoEntryRows(n) == NodeRows(n) \ ValuedRows(n, call.fid)

\* C16 (as claimed): at every scan position of the main sweep and for
\* every frontier node, stats_c_left + stats_unc = stats = the sum over the
\* entries of the node scanned so far, stats_c_left + stats_unc plus the sum
\* over the entries not yet scanned is snode[n].stats, and at the end of the
\* scan stats is snode[n].stats.
C16_ScanConservation ==
  \A d \in Directions : \A k \in ScanPositions : \A n \in Frontier :
    LET e == ScanPrefix(d, k)[n]
    IN /\ StatsAdd(e.stats_c_left, e.stats_unc) = e.stats
       /\ e.stats = SumStats(ScannedRows(n, d, k))
       /\ StatsAdd(StatsAdd(e.stats_c_left, e.stats_unc),
                   SumStats(UnscannedRows(n, d, k))) = snode[n].stats
       /\ k = Len(cols[call.fid]) => e.stats = snode[n].stats

\* C16 (amended): the same with the instances of the node that have no
\* entry in the column counted apart: stats_c_left + stats_unc = stats at
\* every scan position and at every candidate, stats plus the entries not
\* yet scanned plus the instances without entry is snode[n].stats, and at
\* the end of the scan stats is snode[n].stats minus the instances without
\* entry.
C16_ScanConservationSparse ==
  /\ \A d \in Directions : \A k \in ScanPositions : \A n \in Frontier :
       LET e == ScanPrefix(d, k)[n]
       IN /\ StatsAdd(e.stats_c_left, e.stats_unc) = e.stats
          /\ e.stats = SumStats(ScannedRows(n, d, k))
          /\ StatsAdd(StatsAdd(StatsAdd(e.stats_c_left, e.stats_unc),
                               SumStats(UnscannedRows(n, d, k))),
                      SumStats(NoEntryRows(n))) = snode[n].stats
          /\ k = Len(cols[call.fid]) =>
               e.stats = StatsSub(snode[n].stats, SumStats(NoEntryRows(n)))
  /\ \A j \in 1..Len(call.offers) :
       StatsAdd(call.offers[j].stats_c_left, call.offers[j].stats_unc)
         = call.offers[j].stats

\* a scan position of a node with an instance without entry at which
\* stats_c_left and stats_unc both hold instances
C16_Witness ==
  \E d \in Directions : \E k \in ScanPositions : \E n \in Frontier :
    /\ NoEntryRows(n) # {}
    /\ ScanPrefix(d, k)[n].stats_c_left.h > 0
    /\ ScanPrefix(d, k)[n].stats_unc.h > 0

\* ----------------------------------------------------------------------- C17
\* the instances whose entries a queue holds
RowsOf(q) == {q[j].index : j \in 1..Len(q)}

\* a queue holds its entries in ascending value, each once
Ascending(q) ==
  /\ \A i, j \in 1..Len(q) : i < j => q[i].fvalue <= q[j].fvalue
  /\ Cardinality(RowsOf(q)) = Len(q)

\* C17: (robust_eps >= 0) at every scan position and for every frontier
\* node, every entry of data_unc_right is in data_unc, both queues are in
\* ascending value, stats_unc_right and stats_unc are the sums over the
\* entries in data_unc_right and data_unc, and an entry that has left a
\* queue is in it at no later position of the scan; the same at every
\* candidate.
C17_QueueDiscipline ==
  /\ \A d \in Directions : \A k \in ScanPositions : \A n \in Frontier :
       LET e == ScanPrefix(d, k)[n]
       IN /\ RowsOf(e.data_unc_right) \subseteq RowsOf(e.data_unc)
          /\ Ascending(e.data_unc_right) /\ Ascending(e.data_unc)
          /\ e.stats_unc_right = SumStats(RowsOf(e.data_unc_right))
          /\ e.stats_unc = SumStats(RowsOf(e.data_unc))
          /\ RowsOf(e.data_unc) \subseteq ScannedRows(n, d, k)
          /\ \A k2 \in ScanPositions :
               k2 > k =>
                 LET e2 == ScanPrefix(d, k2)[n]
                 IN /\ RowsOf(e2.data_unc) \cap ScannedRows(n, d, k)
                         \subseteq RowsOf(e.data_unc)
                    /\ RowsOf(e2.data_unc_right) \cap ScannedRows(n, d, k)
                         \subseteq RowsOf(e.data_unc_right)
  /\ \A j \in 1..Len(call.offers) :
       LET o == call.offers[j]
       IN /\ RowsOf([i \in 1..Len(o.unc_right) |-> [index |-> o.unc_right[i]]])
               \subseteq RowsOf([i \in 1..Len(o.unc) |-> [index |-> o.unc[i]]])
          /\ o.stats_unc_right = SumStats({o.unc_right[i] : i \in 1..Len(o.unc_right)})
          /\ o.stats_unc = SumStats({o.unc[i] : i \in 1..Len(o.unc)})

\* a scan position under a positive budget at which data_unc holds two
\* entries, data_unc_right one, and an entry has left data_unc
C17_Witness ==
  /\ param.robust_eps > 0
  /\ \E d \in Directions : \E k \in ScanPositions : \E n \in Frontier :
       LET e == ScanPrefix(d, k)[n]
       IN /\ Len(e.data_unc) >= 2
          /\ Len(e.data_unc_right) >= 1
          /\ Len(e.data_unc_right) < Len(e.data_unc)
          /\ e.c_left_counter > 0

\* ----------------------------------------------------------------------- C18
\* loss_chg of the four partitions of a candidate, from the statistics the
\* entry held when the candidate was evaluated
FourLosses(o) ==
  {PartLoss(o.nid, o.stats_left, o.d),
   PartLoss(o.nid, StatsAdd(o.stats_c_left, o.stats_unc), o.d),
   PartLoss(o.nid, o.stats_c_left, o.d),
   PartLoss(o.nid, StatsAdd(o.stats_c_left, o.stats_unc_right), o.d)}

\* C18: every candidate the main sweep offers at an entry of value v has
\* threshold v - eps, default_left = (d = -1) and the smallest loss_chg of
\* the four partitions with left sets stats_left, stats_c_left + stats_unc,
\* stats_c_left and stats_c_left + stats_unc_right, whether data_unc is
\* empty at that entry or not.
C18_MainSweepOffer ==
  \A o \in MainOffers :
    /\ o.thr = o.fvalue - param.robust_eps
    /\ o.default_left = (o.d = -1)
    /\ o.loss_chg \in FourLosses(o)
    /\ \A l \in FourLosses(o) : o.loss_chg <= l

\* under a positive budget, a backward candidate offered with an empty
\* data_unc and a candidate whose loss_chg is below its nominal one
C18_Witness ==
  /\ param.robust_eps > 0
  /\ \E o \in MainOffers : Len(o.unc) = 0 /\ o.d = -1 /\ o.loss_chg # 0
  /\ \E o \in MainOffers :
       Len(o.unc) > 0 /\ o.loss_chg < PartLoss(o.nid, o.stats_left, o.d)

\* ----------------------------------------------------------------------- C19
\* the candidates the last loop iteration offered in its closing passes
ClosingOffers ==
  {call.offers[k] : k \in {j \in 1..Len(call.offers) : call.offers[j].kind = "closing"}}

\* the closing candidate is what the claim says it is: all the scanned
\* instances of the node against the rest
ScoresAllScanned(o) ==
  /\ o.stats = SumStats(ValuedRows(o.nid, o.fid))
  /\ o.loss_chg = SplitLoss(o.nid, o.stats, StatsSub(snode[o.nid].stats, o.stats), o.d)
  /\ o.default_left = (o.d = -1)

\* C19: every closing candidate scores all the scanned instances of the
\* node against the rest, and its threshold sends, by "< threshold goes
\* left", every observed value of the node left when d = +1 and every
\* observed value right when d = -1.
C19_ClosingThresholdFarEnd ==
  \A o \in ClosingOffers :
    /\ ScoresAllScanned(o)
    /\ o.d = 1 => \A v \in NodeValues(o.nid, o.fid) : v < o.thr
    /\ o.d = -1 => \A v \in NodeValues(o.nid, o.fid) : v >= o.thr

\* the forward half of C19, and what the backward threshold is
C19_ClosingForwardOnly ==
  \A o \in ClosingOffers :
    /\ ScoresAllScanned(o)
    /\ o.d = 1 => \A v \in NodeValues(o.nid, o.fid) : v < o.thr
    /\ o.d = -1 =>
         /\ \A v \in NodeValues(o.nid, o.fid) : v <= o.fvalue
         /\ o.thr = o.fvalue - (Abs(o.fvalue) + kRtEpsVal + param.robust_eps)

\* ----------------------------------------------------------------------- C20
\* snode_ of the children as InitNewNode fills it after ResetPosition and
\* UpdateQueueExpand, computed from the state FindSplit has left
ChildStats(c) ==
  LET pos == ResetPositionOp(position, tree, qexpand)
      st  == InitNewNodeTemp(stemp, tree, pos)
  IN InitNewNodeSnode(snode, st, tree, UpdateQueueExpand(tree, qexpand, 1))[c].stats

\* the side of a candidate built from the scan, and the two arguments of
\* ComputeSplitScore for its nominal partition
ScannedSide(o) == IF o.kind = "main" THEN o.stats_left ELSE o.stats

ScoredLeft(o) ==
  IF o.d = -1 THEN StatsSub(snode[o.nid].stats, ScannedSide(o)) ELSE ScannedSide(o)

ScoredRight(o) ==
  IF o.d = -1 THEN ScannedSide(o) ELSE StatsSub(snode[o.nid].stats, ScannedSide(o))

\* the candidates of the level that the committed split of n can come
\* from: same feature, loss_chg and default direction, and a threshold
\* that separates the observed values of the node as the stored one does
ChosenOffers(n) ==
  {o \in LevelOffers(n) :
     /\ o.fid = tree[n].sindex
     /\ o.loss_chg = snode[n].best.loss_chg
     /\ o.default_left = tree[n].default_left
     /\ \A v \in NodeValues(n, o.fid) : (v < o.thr) = (v < tree[n].split_cond)}

\* C20: for every committed split, the statistics InitNewNode gives the
\* left and the right child are the left and the right statistics of the
\* nominal partition of the candidate that was chosen, the instances
\* without entry in the split column being on the side default_left sends
\* them to, in forward and in backward sweeps.
C20_ChildrenMatchScoredPartition ==
  pc = "ResetPosition" =>
    \A n \in Committed :
      \E o \in ChosenOffers(n) :
        /\ ChildStats(tree[n].cleft) = ScoredLeft(o)
        /\ ChildStats(tree[n].cright) = ScoredRight(o)

\* the same without regard to which argument is called left
C20_ChildrenMatchUnordered ==
  pc = "ResetPosition" =>
    \A n \in Committed :
      \E o \in ChosenOffers(n) :
        {ChildStats(tree[n].cleft), ChildStats(tree[n].cright)}
          = {ScoredLeft(o), ScoredRight(o)}

\* the same, unordered, for the splits that can only come from the main
\* sweep (the closing candidates are the matter of C19)
C20_ChildrenMatchMainUnordered ==
  pc = "ResetPosition" =>
    \A n \in Committed :
      (\A o \in ChosenOffers(n) : o.kind = "main") =>
        \E o \in ChosenOffers(n) :
          {ChildStats(tree[n].cleft), ChildStats(tree[n].cright)}
            = {ScoredLeft(o), ScoredRight(o)}

\* the same, unordered, for the nodes all of whose eligible instances have
\* an entry in the split column
C20_ChildrenMatchNoMissingUnordered ==
  pc = "ResetPosition" =>
    \A n \in Committed :
      (/\ \A o \in ChosenOffers(n) : o.kind = "main"
       /\ NodeRows(n) \ ValuedRows(n, tree[n].sindex) = {}) =>
        \E o \in ChosenOffers(n) :
          {ChildStats(tree[n].cleft), ChildStats(tree[n].cright)}
            = {ScoredLeft(o), ScoredRight(o)}

\* the same for the splits that come from a forward sweep
C20_ChildrenMatchForward ==
  pc = "ResetPosition" =>
    \A n \in Committed :
      ~tree[n].default_left =>
        \E o \in ChosenOffers(n) :
          /\ ChildStats(tree[n].cleft) = ScoredLeft(o)
          /\ ChildStats(tree[n].cright) = ScoredRight(o)

\* ----------------------------------------------------------------------- C21
\* positions of the frontier whose node committed a split
CommittedIdx(q, t) == {i \in 1..Len(q) : ~IsLeaf(t, q[i])}

\* rank of position i among the committed positions
CommittedRank(q, t, i) == Cardinality({j \in CommittedIdx(q, t) : j <= i})

\* weight of the instances that rest, eligible, on node c
RestingWeight(c) == ComputeWeight(SumStats({j \in Instances : position[j] = c}))

\* the states of a Builder that has passed InitData
InBuilder ==
  pc \in {"InitRoot", "FindSplit", "UpdateSolution", "ResetPosition", "Expand",
          "Finish", "Done", "Returned"}

\* every split of the tree has been handed to the evaluator once, but for
\* the splits of the current frontier between their commit and the AddSplit
\* loop, and nothing else has been handed to it; FindSplit never runs on an
\* empty frontier
SplitsOnce ==
  InBuilder =>
    /\ \A n \in DOMAIN tree :
         Cardinality({k \in 1..Len(splits) : splits[k].nid = n})
           = (IF IsLeaf(tree, n) THEN 0
              ELSE IF /\ pc \in {"ResetPosition", "Expand"}
                      /\ \E i \in 1..Len(qexpand) : qexpand[i] = n
                   THEN 0 ELSE 1)
    /\ \A k \in 1..Len(splits) : splits[k].nid \in DOMAIN tree
    /\ pc \in {"FindSplit", "UpdateSolution", "ResetPosition", "Expand"} => Len(qexpand) > 0

\* the step from ResetPosition's end to the loop test
ExpandStep ==
  pc = "Expand" =>
    LET ci == CommittedIdx(qexpand, tree)
    IN /\ Len(qexpand') = 2 * Cardinality(ci)
       /\ Len(splits') = Len(splits) + Cardinality(ci)
       /\ \A i \in ci :
            LET r   == CommittedRank(qexpand, tree, i)
                n   == qexpand[i]
                rec == splits'[Len(splits) + r]
            IN /\ qexpand'[2 * r - 1] = tree[n].cleft
               /\ qexpand'[2 * r] = tree[n].cright
               /\ rec.nid = n /\ rec.cleft = tree[n].cleft /\ rec.cright = tree[n].cright
               /\ rec.fid = tree[n].sindex
               /\ rec.wleft = snode'[tree[n].cleft].weight
               /\ rec.wright = snode'[tree[n].cright].weight
               /\ rec.wleft = RestingWeight(tree[n].cleft)
               /\ rec.wright = RestingWeight(tree[n].cright)
       /\ \A k \in 1..Len(qexpand') :
            \E i \in ci : tree[qexpand'[k]].parent = qexpand[i]
       /\ (Len(qexpand') = 0 => pc' = "Finish")
       /\ (pc' = "FindSplit" => Len(qexpand') > 0 /\ depth' < param.max_depth)

\* C21: the step after ResetPosition replaces the frontier by the left and
\* right children of the frontier nodes that committed a split, in frontier
\* order, with no child of a leaf; it calls AddSplit once per committed
\* split, with the weights InitNewNode has just computed for the two
\* children, and no split is handed over twice or left out; an empty new
\* frontier ends the depth loop.
C21_FrontierAndAddSplit == []SplitsOnce /\ [][ExpandStep]_vars

\* a second level whose frontier had a leaf and a committed split: two
\* AddSplit calls so far, the frontier is the two children of the node of
\* depth 1 that split
C21_Witness ==
  /\ pc = "Finish"
  /\ Len(splits) = 2
  /\ Len(qexpand) = 2
  /\ tree[qexpand[1]].parent # 0
  /\ \E n \in DOMAIN tree : IsLeaf(tree, n) /\ tree[n].parent = 0 /\ tree[n].cright = -1

\* ----------------------------------------------------------------------- C22
\* the instances whose position is negative-encoded
Excluded == {i \in DOMAIN position : position[i] < 0}

\* one step of the Builder on position_: a negative entry stays negative,
\* and an entry turns negative only in ResetPosition, for an instance that
\* rests on a frontier node FindSplit has made a leaf
PositionStep ==
  (DOMAIN position = Instances /\ DOMAIN position' = Instances) =>
    \A i \in Instances :
      /\ position[i] < 0 => position'[i] < 0
      /\ (position[i] >= 0 /\ position'[i] < 0) =>
           /\ pc = "ResetPosition"
           /\ \E k \in 1..Len(qexpand) : qexpand[k] = position[i]
           /\ IsLeaf(tree, position[i])
           /\ position'[i] = Complement(position[i])

\* InitNewNode and the enumeration passes leave the excluded instances out:
\* the statistics of a frontier node are those of its eligible instances,
\* the scan statistics of the column just enumerated those of its eligible
\* instances with an entry, and no queue or candidate holds an excluded one
ExcludedSkipped ==
  /\ pc \in {"FindSplit", "UpdateSolution", "ResetPosition", "Finish"} =>
       \A n \in Frontier :
         /\ snode[n].stats = SumStats(NodeRows(n))
         /\ NodeRows(n) \cap Excluded = {}
  /\ call.tid # -1 =>
       /\ \A n \in Frontier :
            stemp[call.tid][n].stats = SumStats(ValuedRows(n, call.fid) \ Excluded)
       /\ \A k \in 1..Len(call.offers) :
            LET o == call.offers[k]
            IN /\ QueueRows(o) \cap Excluded = {}
               /\ \E i \in Instances \ Excluded :
                    /\ HasEntry(o.fid, i)
                    /\ position[i] = o.nid
                    /\ EntryValue(o.fid, i) = o.fvalue
               /\ o.kind = "main" =>
                    o.stats = SumStats({i \in Instances \ Excluded :
                                          /\ position[i] = o.nid
                                          /\ HasEntry(o.fid, i)
                                          /\ EntryValue(o.fid, i) < o.fvalue})

\* C22: in Builder::Update a negative-encoded position never becomes
\* non-negative again, the instances that have one are skipped by
\* InitNewNode and by every enumeration pass, and an eligible instance
\* becomes excluded only when the frontier node it is at is made a leaf.
C22_ExcludedStaysExcluded == []ExcludedSkipped /\ [][PositionStep]_vars

\* a column enumerated at the second level while an instance that has an
\* entry in it rests, excluded, on the leaf the first level finalized
C22_Witness ==
  /\ call.tid # -1
  /\ depth = 1
  /\ \E i \in Excluded :
       /\ DecodePosition(position, i) # 0
       /\ IsLeaf(tree, DecodePosition(position, i))
       /\ HasEntry(call.fid, i)
  /\ \E j \in Instances : position[j] > 0

\* ----------------------------------------------------------------------- C23
\* the columns that agree with the column just enumerated on the entries of
\* the eligible instances of node n: the instances of other nodes and the
\* excluded ones get any value or no entry
ColumnVariants(n) ==
  {MakeColumn(v) :
     v \in {w \in [Instances -> ValSet \cup {Missing}] :
              /\ \A i \in NodeRows(n) :
                   w[i] = (IF HasEntry(call.fid, i) THEN EntryValue(call.fid, i)
                           ELSE Missing)
              /\ \E i \in Instances : w[i] # Missing}}

\* a ThreadEntry with its queues taken as sets of rows
QueuesAsSets(e) ==
  [e EXCEPT !.data_unc = RowsOf(@), !.data_unc_right = RowsOf(@)]

\* C23: for the column just enumerated, each direction and each frontier
\* node n, EnumerateSplit leaves n's entry (scan statistics, queues,
\* last_fvalue and best) the same on every column that has the same entries
\* of n's eligible instances, whatever entries of other nodes and of
\* excluded instances are added, removed or moved.
C23_NodeIsolation ==
  call.tid # -1 =>
    \A n \in Frontier : \A d \in Directions : \A col \in ColumnVariants(n) :
      SweepOf(col, d).temp[n] = SweepOf(cols[call.fid], d).temp[n]

\* the same, the order of entries of equal value in the queues left aside
C23_NodeIsolationModTies ==
  call.tid # -1 =>
    \A n \in Frontier : \A d \in Directions : \A col \in ColumnVariants(n) :
      QueuesAsSets(SweepOf(col, d).temp[n])
        = QueuesAsSets(SweepOf(cols[call.fid], d).temp[n])

\* a column enumerated over a frontier of two nodes that both have entries
\* of eligible instances in it, with a candidate offered
C23_Witness ==
  /\ call.tid # -1
  /\ Len(qexpand) = 2
  /\ \A n \in Frontier : ValuedRows(n, call.fid) # {}
  /\ Len(call.offers) > 0

\* ----------------------------------------------------------------------- C24
\* the directions the last loop iteration ran
RanDirections == {d \in Directions : IF d = 1 THEN call.fwd ELSE call.bwd}

\* the thread's entries at the start of the sweep of direction d
StartOf(d) ==
  IF d = -1 /\ call.fwd THEN SweepOf(cols[call.fid], 1).temp ELSE call.pre

\* the thread's entries after the closing pass of the sweep of direction d,
\* before the midpoint pass
BeforeMid(d) ==
  LET ord == ScanOrder(cols[call.fid], d)
      a0  == [temp |-> ClearTemp(StartOf(d), qexpand), offers |-> << >>]
      a1  == MainSweep(a0, ord, 1, d, call.fid, param.robust_eps)
  IN ClosingPass(a1, qexpand, 1, d, call.fid, param.robust_eps).temp

\* the midpoint pass after its first k entries
MidPrefix(d, k) ==
  MidPass([temp |-> BeforeMid(d), updated |-> {}, last |-> << >>],
          SubSeq(ScanOrder(cols[call.fid], d), 1, k), 1, call.fid)

\* the entries of the pass at which the best of node n changes
MoveSteps(n, d) ==
  {k \in ScanPositions \ {0} :
     MidPrefix(d, k).temp[n].best # MidPrefix(d, k - 1).temp[n].best}

\* C24: in every sweep of the column just enumerated the midpoint pass
\* changes the best of a node at most once, changes nothing of the node's
\* entry but the threshold of its best (loss_chg, feature and default_left
\* stay), and the new threshold sends every value the node's eligible
\* instances have in the column to the side ('<' left, else right) the old
\* threshold sends it to.
C24_MidpointFrame ==
  call.tid # -1 =>
    \A d \in RanDirections : \A n \in DOMAIN BeforeMid(d) :
      LET before == BeforeMid(d)[n]
          after  == MidPrefix(d, Len(cols[call.fid])).temp[n]
      IN /\ Cardinality(MoveSteps(n, d)) <= 1
         /\ after = [before EXCEPT !.best.split_value = after.best.split_value]
         /\ n \notin Frontier => after = before
         /\ n \in Frontier =>
              \A v \in NodeValues(n, call.fid) :
                (v < after.best.split_value) = (v < before.best.split_value)
         /\ d = (IF call.bwd THEN -1 ELSE 1) => after = stemp[call.tid][n]

\* a sweep under a positive budget whose midpoint pass moved the threshold
\* of a node's best
C24_Witness ==
  /\ call.tid # -1
  /\ param.robust_eps > 0
  /\ \E d \in RanDirections : \E n \in Frontier : MoveSteps(n, d) # {}

\* ----------------------------------------------------------------------- C25
\* the nodes whose two children are the frontier's
FrontierParents == {tree[c].parent : c \in Frontier} \ {-1}

\* ResetPosition deals the eligible instances of every committed frontier
\* node to its two children and brings no other instance there
ResetStep ==
  pc = "ResetPosition" =>
    \A n \in Committed :
      /\ {i \in Instances : position'[i] \in {tree[n].cleft, tree[n].cright}}
           = NodeRows(n)
      /\ \A i \in NodeRows(n) : position'[i] = ChildFor(n, i)

\* after InitNewNode the statistics of the two children of a split are the
\* sums over the instances that rest on each and add up to the parent's
ChildrenAddUp ==
  pc \in {"FindSplit", "UpdateSolution", "ResetPosition", "Finish"} =>
    \A n \in FrontierParents :
      /\ snode[tree[n].cleft].stats = SumStats(NodeRows(tree[n].cleft))
      /\ snode[tree[n].cright].stats = SumStats(NodeRows(tree[n].cright))
      /\ StatsAdd(snode[tree[n].cleft].stats, snode[tree[n].cright].stats)
           = snode[n].stats

\* C25: for every committed split of a node n, after ResetPosition and
\* InitNewNode the statistics of the two children add up to those of n:
\* every eligible instance of n is at exactly one child and no instance of
\* another node is at either.
C25_ChildrenAddUp == []ChildrenAddUp /\ [][ResetStep]_vars

\* a level below a split whose node had an eligible instance without entry
\* in the split column, both children holding instances
C25_Witness ==
  /\ pc = "FindSplit"
  /\ \E n \in FrontierParents :
       /\ NodeRows(tree[n].cleft) # {} /\ NodeRows(tree[n].cright) # {}
       /\ \E i \in NodeRows(tree[n].cleft) \cup NodeRows(tree[n].cright) :
            ~HasEntry(tree[n].sindex, i)

\* ----------------------------------------------------------------------- C26
\* the columns that have an entry
NonEmptyCols == {f \in FeatIds : Len(cols[f]) # 0}

\* within a level: the level's sample is a part of the tree's sample, of
\* the size colsample_bylevel gives, every column scanned and every
\* candidate offered carries a feature of the level's sample, and so does
\* every split committed
SampledOnly ==
  pc \in {"UpdateSolution", "ResetPosition"} =>
    /\ feat_index \subseteq NonEmptyCols
    /\ Cardinality(feat_index) = SampleCount(param.colsample_bytree, Cardinality(NonEmptyCols))
    /\ feat_set \subseteq feat_index
    /\ Cardinality(feat_set) =
         (IF param.colsample_bylevel # 2
          THEN SampleCount(param.colsample_bylevel, Cardinality(feat_index))
          ELSE Cardinality(feat_index))
    /\ call.tid # -1 =>
         /\ call.fid \in feat_set
         /\ \A k \in 1..Len(call.offers) : call.offers[k].fid = call.fid
    /\ par.scanned \subseteq feat_set
    /\ \A k \in 1..Len(par.offers) : par.offers[k].fid \in feat_set
    /\ pc = "ResetPosition" => \A n \in Committed : tree[n].sindex \in feat_set

\* C26: at every depth, in the feature-parallel and in the
\* within-column-parallel mode, every column scanned and every candidate
\* offered to a node's best has a feature id of the depth's sampled feature
\* set (the colsample_bytree selection reduced by colsample_bylevel), and
\* every committed split uses a sampled feature.
C26_SampledFeaturesOnly == SampledOnly

\* the same for the feature-parallel mode alone
C26_SampledFeaturesSerial ==
  Poption(Cardinality(feat_set)) = 0 => SampledOnly

\* what the within-column-parallel mode scans: the columns 0 .. n - 1 for
\* a level's sample of n features, whichever features were sampled
C26_ParallelScansFirstColumns ==
  (pc \in {"UpdateSolution", "ResetPosition"} /\ par # NoPar) =>
    /\ par.scanned = 0..(Cardinality(feat_set) - 1)
    /\ \A k \in 1..Len(par.offers) : par.offers[k].fid \in par.scanned

====
